---- MODULE Spec2Model ----
(***************************************************************************)
(* Model of the compose-file loader (src/loader/loader.go, first listing): *)
(* ParseYAML and its key normalizer, Load and its stages, the reflective   *)
(* field decoder loadStruct and the coercion helpers it dispatches to.     *)
(*                                                                         *)
(* Go strings are sequences of one-character strings, so that splitting,   *)
(* joining and printing are computed and not assumed.  Document values are *)
(* tagged records.  An operator that can fail returns the SET of outcomes  *)
(* the Go code can produce: Go map iteration order is unspecified, so when *)
(* several entries of a map fail, any of their failures can be the one     *)
(* that is met first.                                                      *)
(***************************************************************************)
EXTENDS Integers, Sequences, FiniteSets, TLC

VARIABLES
    source,         \* what yaml.Unmarshal yields for the bytes given to ParseYAML
    nfiles,         \* len(configDetails.ConfigFiles) handed to Load
    schemaValid,    \* verdict of gojsonschema on the document (result.Valid())
    pc,             \* position in loadYAML / Load
    configFile,     \* types.ConfigFile.Config produced by ParseYAML, or None
    cfg,            \* the types.Config under construction in Load
    ret,            \* how the call ended: not yet, a returned pair of Config and error, or a panic
    trace,          \* the stages of Load that have run, in order
    helperArg,      \* the document value handed to a coercion helper called on its own
    helperSep,      \* the separator handed to it
    helperOut,      \* what the helper gave back
    helperFn,       \* which helper is called on its own
    helperWith      \* its other argument: a resource name, or the working directory and HOME

loadVars == <<source, nfiles, schemaValid, pc, configFile, cfg, ret, trace>>
helperVars == <<helperArg, helperSep, helperOut, helperFn, helperWith>>
vars == <<source, nfiles, schemaValid, pc, configFile, cfg, ret, trace, helperArg, helperSep, helperOut,
          helperFn, helperWith>>

-----------------------------------------------------------------------------
(* Bounds *)

\* largest number of ConfigFiles handed to Load
MaxFiles == 2
\* longest list handed to a coercion helper called on its own
MaxItems == 2

-----------------------------------------------------------------------------
(* Strings *)

S_empty == <<>>
S_version == <<"v","e","r","s","i","o","n">>
S_services == <<"s","e","r","v","i","c","e","s">>
S_networks == <<"n","e","t","w","o","r","k","s">>
S_volumes == <<"v","o","l","u","m","e","s">>
S_2_1 == <<"2",".","1">>
S_2 == <<"2">>
S_2_0 == <<"2",".","0">>
S_at_top_level == <<"a","t"," ","t","o","p"," ","l","e","v","e","l">>
S_in_ == <<"i","n"," ">>

Digit(d) == CASE d = 0 -> "0" [] d = 1 -> "1" [] d = 2 -> "2" [] d = 3 -> "3"
              [] d = 4 -> "4" [] d = 5 -> "5" [] d = 6 -> "6" [] d = 7 -> "7"
              [] d = 8 -> "8" [] d = 9 -> "9"

RECURSIVE Itoa(_)
\* decimal form of an int, as fmt's %d / %v prints it
Itoa(n) ==
    IF n < 0 THEN <<"-">> \o Itoa(0 - n)
    ELSE IF n < 10 THEN <<Digit(n)>>
    ELSE Itoa(n \div 10) \o <<Digit(n % 10)>>

-----------------------------------------------------------------------------
(* Document values: interface{} as produced by yaml.v2 and by the normalizer *)

VNull == [t |-> "null"]
VBool(b) == [t |-> "bool", b |-> b]
VInt(n) == [t |-> "int", n |-> n]
\* a float64 with one decimal place, held in tenths: VFloat(25) is 2.5
VFloat(tenths) == [t |-> "float", f |-> tenths]
VStr(s) == [t |-> "string", s |-> s]
\* []interface{}
VList(items) == [t |-> "list", items |-> items]
\* map[interface{}]interface{}: keys are scalar values
VRawMap(m) == [t |-> "rawmap", m |-> m]
\* types.Dict, map[string]interface{}: keys are strings
VDict(m) == [t |-> "dict", m |-> m]

EmptyMap == <<>>

\* outcomes of a call
Ok(v) == [t |-> "ok", v |-> v]
Err(kind, detail) == [t |-> "err", kind |-> kind, detail |-> detail]
Panic(where) == [t |-> "panic", where |-> where]
None == [t |-> "none"]

Failures(outcomes) == {o \in outcomes : o.t # "ok"}
TheOk(outcomes) == (CHOOSE o \in outcomes : o.t = "ok").v

-----------------------------------------------------------------------------
(* Normalizer *)

RECURSIVE convertToStringKeysRecursive(_, _)
RECURSIVE convertList(_, _, _, _)

\* mutant: each converted element is put in front of the ones before it
convertList_prepend(list, keyPrefix, index, convertedList) ==
    IF index > Len(list) THEN {Ok(VList(convertedList))}
    ELSE LET newKeyPrefix == keyPrefix \o <<"[">> \o Itoa(index - 1) \o <<"]">>
             sub == convertToStringKeysRecursive(list[index], newKeyPrefix)
         IN IF Failures(sub) # {} THEN Failures(sub)
            ELSE convertList(list, keyPrefix, index + 1, <<TheOk(sub)>> \o convertedList)

\* mutant: a list is returned as it is, its elements not converted
convertList_shallow(list, keyPrefix, index, convertedList) == {Ok(VList(list))}

\* the loop over a []interface{}: elements are visited in index order
convertList(list, keyPrefix, index, convertedList) ==
    IF index > Len(list) THEN {Ok(VList(convertedList))}
    ELSE LET newKeyPrefix == keyPrefix \o <<"[">> \o Itoa(index - 1) \o <<"]">>
             sub == convertToStringKeysRecursive(list[index], newKeyPrefix)
         IN IF Failures(sub) # {} THEN Failures(sub)
            ELSE convertList(list, keyPrefix, index + 1, Append(convertedList, TheOk(sub)))

convertToStringKeysRecursive(value, keyPrefix) ==
    IF value.t = "rawmap" THEN
        LET mapping == value.m
            nonString == {key \in DOMAIN mapping : key.t # "string"}
            location == IF keyPrefix = S_empty THEN S_at_top_level ELSE S_in_ \o keyPrefix
            keyErrs == {Err("NonStringKey", [location |-> location, key |-> key]) : key \in nonString}
            newKeyPrefix(str) == IF keyPrefix = S_empty THEN str
                                 ELSE keyPrefix \o <<".">> \o str
            sub(key) == convertToStringKeysRecursive(mapping[key], newKeyPrefix(key.s))
            entryErrs == UNION {Failures(sub(key)) : key \in DOMAIN mapping \ nonString}
        IN IF keyErrs \cup entryErrs # {} THEN keyErrs \cup entryErrs
           ELSE {Ok(VDict([str \in {key.s : key \in DOMAIN mapping} |-> TheOk(sub(VStr(str)))]))}
    ELSE IF value.t = "list" THEN
        convertList(value.items, keyPrefix, 1, <<>>)
    ELSE {Ok(value)}

\* mutant: a top-level value that is not a mapping is taken for an empty document
ParseYAML_lenient(unmarshalled) ==
    IF unmarshalled.t = "yamlerror" THEN {Err("YAMLError", <<>>)}
    ELSE IF unmarshalled.t # "rawmap" THEN {Ok(VDict(EmptyMap))}
    ELSE convertToStringKeysRecursive(unmarshalled, S_empty)

\* ParseYAML after yaml.Unmarshal has produced cfg (or failed)
ParseYAML(unmarshalled) ==
    IF unmarshalled.t = "yamlerror" THEN {Err("YAMLError", <<>>)}
    ELSE IF unmarshalled.t # "rawmap" THEN {Err("NotAMapping", <<>>)}
    ELSE convertToStringKeysRecursive(unmarshalled, S_empty)

-----------------------------------------------------------------------------
(* String primitives of the Go library *)

\* the printable ASCII characters in byte order (backslash and backquote left out)
Alphabet == <<" ","!","\"","#","$","%","&","'","(",")","*","+",",","-",".","/","0","1","2","3","4","5","6","7","8","9",":",";","<","=",">","?","@","A","B","C","D","E","F","G","H","I","J","K","L","M","N","O","P","Q","R","S","T","U","V","W","X","Y","Z","[","]","^","_","a","b","c","d","e","f","g","h","i","j","k","l","m","n","o","p","q","r","s","t","u","v","w","x","y","z","{","|","}","~">>

Rank(c) == CHOOSE i \in 1..Len(Alphabet) : Alphabet[i] = c

RECURSIVE StrLess(_, _)
\* Go's < on strings: bytewise lexicographic
StrLess(a, b) ==
    IF b = <<>> THEN FALSE
    ELSE IF a = <<>> THEN TRUE
    ELSE IF Head(a) # Head(b) THEN Rank(Head(a)) < Rank(Head(b))
    ELSE StrLess(Tail(a), Tail(b))

RECURSIVE SortedKeys(_)
\* the keys of a map in increasing order, as fmt prints a map
SortedKeys(keys) ==
    IF keys = {} THEN <<>>
    ELSE LET least == CHOOSE k \in keys : \A other \in keys \ {k} : StrLess(k, other)
         IN <<least>> \o SortedKeys(keys \ {least})

RECURSIVE Index(_, _, _)
\* strings.Index from position i: where sep first occurs in s, 0 when it does not
Index(s, sep, i) ==
    IF i + Len(sep) - 1 > Len(s) THEN 0
    ELSE IF SubSeq(s, i, i + Len(sep) - 1) = sep THEN i
    ELSE Index(s, sep, i + 1)

RECURSIVE LastIndex(_, _, _)
\* strings.LastIndex, scanning down from position i
LastIndex(s, sep, i) ==
    IF i < 1 THEN 0
    ELSE IF i + Len(sep) - 1 <= Len(s) /\ SubSeq(s, i, i + Len(sep) - 1) = sep THEN i
    ELSE LastIndex(s, sep, i - 1)

\* mutant: the string is cut at the last separator
SplitN2_last(s, sep) ==
    LET i == LastIndex(s, sep, Len(s))
    IN IF i = 0 THEN <<s>>
       ELSE <<SubSeq(s, 1, i - 1), SubSeq(s, i + Len(sep), Len(s))>>

\* strings.SplitN(s, sep, 2) for a non-empty sep
SplitN2(s, sep) ==
    LET i == Index(s, sep, 1)
    IN IF i = 0 THEN <<s>>
       ELSE <<SubSeq(s, 1, i - 1), SubSeq(s, i + Len(sep), Len(s))>>

\* strings.HasPrefix
HasPrefix(s, prefix) == Len(s) >= Len(prefix) /\ SubSeq(s, 1, Len(prefix)) = prefix

RECURSIVE Join(_, _)
\* strings.Join
Join(parts, sep) ==
    IF parts = <<>> THEN <<>>
    ELSE IF Len(parts) = 1 THEN parts[1]
    ELSE parts[1] \o sep \o Join(Tail(parts), sep)

\* a float64 with one decimal place as %v prints it: 2.5, and 2 for 2.0
Ftoa(tenths) ==
    IF tenths % 10 = 0 THEN Itoa(tenths \div 10)
    ELSE Itoa(tenths \div 10) \o <<".">> \o <<Digit(tenths % 10)>>

RECURSIVE Sprint(_)
\* fmt.Sprint of one document value
Sprint(value) ==
    CASE value.t = "null" -> <<"<","n","i","l",">">>
      [] value.t = "string" -> value.s
      [] value.t = "int" -> Itoa(value.n)
      [] value.t = "float" -> Ftoa(value.f)
      [] value.t = "bool" -> IF value.b THEN <<"t","r","u","e">> ELSE <<"f","a","l","s","e">>
      [] value.t = "list" ->
            <<"[">> \o Join([i \in 1..Len(value.items) |-> Sprint(value.items[i])], <<" ">>) \o <<"]">>
      [] value.t = "dict" ->
            LET keys == SortedKeys(DOMAIN value.m)
            IN <<"m","a","p","[">>
               \o Join([i \in 1..Len(keys) |-> keys[i] \o <<":">> \o Sprint(value.m[keys[i]])], <<" ">>)
               \o <<"]">>

toString(value) ==
    IF value = VNull THEN S_empty
    ELSE Sprint(value)

-----------------------------------------------------------------------------
(* Decoded Go values: the fields of the typed records *)

\* the nil slice, nil map or nil pointer
Nil == [t |-> "nil"]
\* []string and the other slices
GoSlice(items) == [t |-> "slice", items |-> items]
\* map[string]string and the other maps keyed by string
GoMap(m) == [t |-> "map", m |-> m]

-----------------------------------------------------------------------------
(* Coercion helpers *)


RECURSIVE loadMappingOrListItems(_, _, _, _)
\* mutant: a key that is in the result already keeps its value
loadMappingOrListItems_firstWins(list, sep, i, result) ==
    IF i > Len(list) THEN Ok(GoMap(result))
    ELSE IF list[i].t # "string" THEN Panic("loadMappingOrList: value.(string)")
    ELSE LET parts == SplitN2(list[i].s, sep)
             entry == IF Len(parts) = 1 THEN S_empty ELSE parts[2]
         IN loadMappingOrListItems(list, sep, i + 1, result @@ (parts[1] :> entry))

\* the loop over the list form: a later item overwrites an earlier one with the same key
loadMappingOrListItems(list, sep, i, result) ==
    IF i > Len(list) THEN Ok(GoMap(result))
    ELSE IF list[i].t # "string" THEN Panic("loadMappingOrList: value.(string)")
    ELSE LET parts == SplitN2(list[i].s, sep)
             entry == IF Len(parts) = 1 THEN S_empty ELSE parts[2]
             rest == [k \in DOMAIN result \ {parts[1]} |-> result[k]]
         IN loadMappingOrListItems(list, sep, i + 1, (parts[1] :> entry) @@ rest)

loadMappingOrList(mappingOrList, sep) ==
    IF mappingOrList.t = "dict" THEN
        Ok(GoMap([name \in DOMAIN mappingOrList.m |-> toString(mappingOrList.m[name])]))
    ELSE IF mappingOrList.t = "list" THEN
        loadMappingOrListItems(mappingOrList.items, sep, 1, EmptyMap)
    ELSE Panic("loadMappingOrList: expected a map or a slice")

loadStringMapping(value) ==
    IF value.t # "dict" THEN Panic("loadStringMapping: value.(types.Dict)")
    ELSE Ok(GoMap([name \in DOMAIN value.m |-> toString(value.m[name])]))

loadListOfStrings(value) ==
    IF value.t # "list" THEN Panic("loadListOfStrings: value.([]interface{})")
    ELSE IF \E i \in 1..Len(value.items) : value.items[i].t # "string"
         THEN Panic("loadListOfStrings: item.(string)")
    ELSE Ok(GoSlice([i \in 1..Len(value.items) |-> value.items[i].s]))

loadListOfStringsOrNumbers(value) ==
    IF value.t # "list" THEN Panic("loadListOfStringsOrNumbers: value.([]interface{})")
    ELSE Ok(GoSlice([i \in 1..Len(value.items) |-> Sprint(value.items[i])]))

\* mutant: a string is handed to loadListOfStrings like a list
loadStringOrListOfStrings_unwrapped(value) == loadListOfStrings(value)

loadStringOrListOfStrings(value) ==
    IF value.t = "list" THEN loadListOfStrings(value)
    ELSE IF value.t # "string" THEN Panic("loadStringOrListOfStrings: value.(string)")
    ELSE Ok(GoSlice(<<value.s>>))

-----------------------------------------------------------------------------
(* External primitives: shell-word splitting and size parsing *)

RECURSIVE ShellWords(_, _, _, _, _, _, _)
\* shellwords.Parse over spaces, the two quote characters and ordinary characters
ShellWords(line, i, buf, got, singleQuoted, doubleQuoted, args) ==
    IF i > Len(line) THEN
        IF singleQuoted \/ doubleQuoted THEN Err("CoercionError", line)
        ELSE Ok(GoSlice(IF got THEN Append(args, buf) ELSE args))
    ELSE LET r == line[i]
         IN IF r = " " THEN
                IF singleQuoted \/ doubleQuoted
                THEN ShellWords(line, i + 1, Append(buf, r), got, singleQuoted, doubleQuoted, args)
                ELSE IF got THEN ShellWords(line, i + 1, <<>>, FALSE, singleQuoted, doubleQuoted, Append(args, buf))
                ELSE ShellWords(line, i + 1, buf, got, singleQuoted, doubleQuoted, args)
            ELSE IF r = "\"" /\ ~singleQuoted
                THEN ShellWords(line, i + 1, buf, got, singleQuoted, ~doubleQuoted, args)
            ELSE IF r = "'" /\ ~doubleQuoted
                THEN ShellWords(line, i + 1, buf, got, ~singleQuoted, doubleQuoted, args)
            ELSE ShellWords(line, i + 1, Append(buf, r), TRUE, singleQuoted, doubleQuoted, args)

loadShellCommand(value) ==
    IF value.t = "string" THEN ShellWords(value.s, 1, <<>>, FALSE, FALSE, FALSE, <<>>)
    ELSE loadListOfStrings(value)

Digits == <<"0","1","2","3","4","5","6","7","8","9">>

IsDigit(c) == \E i \in 1..Len(Digits) : Digits[i] = c
DigitValue(c) == (CHOOSE i \in 1..Len(Digits) : Digits[i] = c) - 1

RECURSIVE Atoi(_, _)
Atoi(digits, acc) ==
    IF digits = <<>> THEN acc ELSE Atoi(Tail(digits), acc * 10 + DigitValue(Head(digits)))

RECURSIVE LeadingDigits(_)
LeadingDigits(str) ==
    IF str # <<>> /\ IsDigit(Head(str)) THEN <<Head(str)>> \o LeadingDigits(Tail(str)) ELSE <<>>

\* the multiplier go-units gives a unit letter
UnitMultiplier(c) ==
    CASE c \in {"k", "K"} -> 1024
      [] c \in {"m", "M"} -> 1024 * 1024
      [] c \in {"g", "G"} -> 1024 * 1024 * 1024
      [] c \in {"t", "T"} -> 1024 * 1024 * 1024 * 1024
      [] c \in {"p", "P"} -> 1024 * 1024 * 1024 * 1024 * 1024

\* units.RAMInBytes on whole numbers: digits, an optional space, an optional unit letter, an optional b
RAMInBytes(str) ==
    LET digits == LeadingDigits(str)
        rest1 == SubSeq(str, Len(digits) + 1, Len(str))
        rest2 == IF rest1 # <<>> /\ Head(rest1) = " " THEN Tail(rest1) ELSE rest1
        hasUnit == rest2 # <<>> /\ Head(rest2) \in {"k","K","m","M","g","G","t","T","p","P"}
        rest3 == IF hasUnit THEN Tail(rest2) ELSE rest2
        rest4 == IF rest3 # <<>> /\ Head(rest3) \in {"b", "B"} THEN Tail(rest3) ELSE rest3
    IN IF digits = <<>> \/ rest4 # <<>> THEN Err("CoercionError", str)
       ELSE Ok(VInt(Atoi(digits, 0) * (IF hasUnit THEN UnitMultiplier(Head(rest2)) ELSE 1)))

loadSize(value) ==
    IF value.t = "int" THEN Ok(VInt(value.n))
    ELSE IF value.t # "string" THEN Panic("loadSize: value.(string)")
    ELSE RAMInBytes(value.s)

-----------------------------------------------------------------------------
(* Field names and the document keys derived from them *)

Upper == <<"A","B","C","D","E","F","G","H","I","J","K","L","M","N","O","P","Q","R","S","T","U","V","W","X","Y","Z">>
Lower == <<"a","b","c","d","e","f","g","h","i","j","k","l","m","n","o","p","q","r","s","t","u","v","w","x","y","z">>

IsUpper(c) == \E i \in 1..Len(Upper) : Upper[i] = c
IsLowerOrDigit(c) == (\E i \in 1..Len(Lower) : Lower[i] = c) \/ IsDigit(c)
ToLower(c) == IF IsUpper(c) THEN Lower[CHOOSE i \in 1..Len(Upper) : Upper[i] = c] ELSE c

RECURSIVE MatchEnd(_, _)
\* last position of the run of [a-z0-9] that starts at position i
MatchEnd(name, i) ==
    IF i + 1 <= Len(name) /\ IsLowerOrDigit(name[i + 1]) THEN MatchEnd(name, i + 1) ELSE i

RECURSIVE FindAllString(_, _)
\* fieldNameRegexp.FindAllString(name, -1) for "[A-Z][a-z0-9]+", scanning from position i
FindAllString(name, i) ==
    IF i > Len(name) THEN <<>>
    ELSE IF IsUpper(name[i]) /\ i + 1 <= Len(name) /\ IsLowerOrDigit(name[i + 1])
         THEN LET e == MatchEnd(name, i + 1)
              IN <<SubSeq(name, i, e)>> \o FindAllString(name, e + 1)
    ELSE FindAllString(name, i + 1)

toYAMLName(name) ==
    LET nameParts == FindAllString(name, 1)
    IN Join([i \in 1..Len(nameParts) |->
                [j \in 1..Len(nameParts[i]) |-> ToLower(nameParts[i][j])]], <<"_">>)

\* one struct field: its Go name, the name spelt out, its compose tag, the kind of its type
F(name, chars, tag, kind, elem) ==
    [name |-> name, chars |-> chars, tag |-> tag, kind |-> kind, elem |-> elem]

\* type ServiceConfig struct, src/types/types.go:22-70
ServiceConfigFields ==
    <<
    F("Name", <<"N","a","m","e">>, "", "string", ""),
    F("CapAdd", <<"C","a","p","A","d","d">>, "", "slice_string", ""),
    F("CapDrop", <<"C","a","p","D","r","o","p">>, "", "slice_string", ""),
    F("CgroupParent", <<"C","g","r","o","u","p","P","a","r","e","n","t">>, "", "string", ""),
    F("Command", <<"C","o","m","m","a","n","d">>, "shell_command", "slice_string", ""),
    F("ContainerName", <<"C","o","n","t","a","i","n","e","r","N","a","m","e">>, "", "string", ""),
    F("DependsOn", <<"D","e","p","e","n","d","s","O","n">>, "", "slice_string", ""),
    F("Deploy", <<"D","e","p","l","o","y">>, "", "struct", "DeployConfig"),
    F("Devices", <<"D","e","v","i","c","e","s">>, "", "slice_string", ""),
    F("Dns", <<"D","n","s">>, "string_or_list", "slice_string", ""),
    F("DnsSearch", <<"D","n","s","S","e","a","r","c","h">>, "string_or_list", "slice_string", ""),
    F("DomainName", <<"D","o","m","a","i","n","N","a","m","e">>, "", "string", ""),
    F("Entrypoint", <<"E","n","t","r","y","p","o","i","n","t">>, "shell_command", "slice_string", ""),
    F("Environment", <<"E","n","v","i","r","o","n","m","e","n","t">>, "list_or_dict_equals", "map_string", ""),
    F("EnvFile", <<"E","n","v","F","i","l","e">>, "", "slice_string", ""),
    F("Expose", <<"E","x","p","o","s","e">>, "list_of_strings_or_numbers", "slice_string", ""),
    F("ExternalLinks", <<"E","x","t","e","r","n","a","l","L","i","n","k","s">>, "", "slice_string", ""),
    F("ExtraHosts", <<"E","x","t","r","a","H","o","s","t","s">>, "list_or_dict_colon", "map_string", ""),
    F("Hostname", <<"H","o","s","t","n","a","m","e">>, "", "string", ""),
    F("Image", <<"I","m","a","g","e">>, "", "string", ""),
    F("Ipc", <<"I","p","c">>, "", "string", ""),
    F("Labels", <<"L","a","b","e","l","s">>, "list_or_dict_equals", "map_string", ""),
    F("Links", <<"L","i","n","k","s">>, "", "slice_string", ""),
    F("Logging", <<"L","o","g","g","i","n","g">>, "", "ptr_struct", "LoggingConfig"),
    F("MacAddress", <<"M","a","c","A","d","d","r","e","s","s">>, "", "string", ""),
    F("MemLimit", <<"M","e","m","L","i","m","i","t">>, "size", "int64", ""),
    F("MemswapLimit", <<"M","e","m","s","w","a","p","L","i","m","i","t">>, "size", "int64", ""),
    F("NetworkMode", <<"N","e","t","w","o","r","k","M","o","d","e">>, "", "string", ""),
    F("Networks", <<"N","e","t","w","o","r","k","s">>, "list_or_struct_map", "map_ptr_struct", "ServiceNetworkConfig"),
    F("Pid", <<"P","i","d">>, "", "string", ""),
    F("Ports", <<"P","o","r","t","s">>, "list_of_strings_or_numbers", "slice_string", ""),
    F("Privileged", <<"P","r","i","v","i","l","e","g","e","d">>, "", "bool", ""),
    F("ReadOnly", <<"R","e","a","d","O","n","l","y">>, "", "bool", ""),
    F("Restart", <<"R","e","s","t","a","r","t">>, "", "string", ""),
    F("SecurityOpt", <<"S","e","c","u","r","i","t","y","O","p","t">>, "", "slice_string", ""),
    F("ShmSize", <<"S","h","m","S","i","z","e">>, "size", "int64", ""),
    F("StdinOpen", <<"S","t","d","i","n","O","p","e","n">>, "", "bool", ""),
    F("StopGracePeriod", <<"S","t","o","p","G","r","a","c","e","P","e","r","i","o","d">>, "", "ptr_string", ""),
    F("StopSignal", <<"S","t","o","p","S","i","g","n","a","l">>, "", "string", ""),
    F("Tmpfs", <<"T","m","p","f","s">>, "string_or_list", "slice_string", ""),
    F("Tty", <<"T","t","y">>, "", "bool", ""),
    F("Ulimits", <<"U","l","i","m","i","t","s">>, "", "map_ptr_struct", "UlimitsConfig"),
    F("User", <<"U","s","e","r">>, "", "string", ""),
    F("Volumes", <<"V","o","l","u","m","e","s">>, "", "slice_string", ""),
    F("VolumeDriver", <<"V","o","l","u","m","e","D","r","i","v","e","r">>, "", "string", ""),
    F("WorkingDir", <<"W","o","r","k","i","n","g","D","i","r">>, "", "string", "")
    >>

\* type LoggingConfig struct, src/types/types.go:72-75
LoggingConfigFields ==
    <<
    F("Driver", <<"D","r","i","v","e","r">>, "", "string", ""),
    F("Options", <<"O","p","t","i","o","n","s">>, "", "map_string", "")
    >>

\* type DeployConfig struct, src/types/types.go:77-82
DeployConfigFields ==
    <<
    F("Mode", <<"M","o","d","e">>, "", "string", ""),
    F("Replicas", <<"R","e","p","l","i","c","a","s">>, "", "uint64", ""),
    F("Labels", <<"L","a","b","e","l","s">>, "list_or_dict_equals", "map_string", ""),
    F("Placement", <<"P","l","a","c","e","m","e","n","t">>, "", "struct", "Placement")
    >>

\* type Placement struct, src/types/types.go:84-86
PlacementFields ==
    <<
    F("Constraints", <<"C","o","n","s","t","r","a","i","n","t","s">>, "", "slice_string", "")
    >>

\* type ServiceNetworkConfig struct, src/types/types.go:88-92
ServiceNetworkConfigFields ==
    <<
    F("Aliases", <<"A","l","i","a","s","e","s">>, "", "slice_string", ""),
    F("Ipv4Address", <<"I","p","v","4","A","d","d","r","e","s","s">>, "", "string", ""),
    F("Ipv6Address", <<"I","p","v","6","A","d","d","r","e","s","s">>, "", "string", "")
    >>

\* type UlimitsConfig struct, src/types/types.go:94-98
UlimitsConfigFields ==
    <<
    F("Single", <<"S","i","n","g","l","e">>, "", "int", ""),
    F("Soft", <<"S","o","f","t">>, "", "int", ""),
    F("Hard", <<"H","a","r","d">>, "", "int", "")
    >>

\* type NetworkConfig struct, src/types/types.go:100-106
NetworkConfigFields ==
    <<
    F("Driver", <<"D","r","i","v","e","r">>, "", "string", ""),
    F("DriverOpts", <<"D","r","i","v","e","r","O","p","t","s">>, "", "map_string", ""),
    F("Ipam", <<"I","p","a","m">>, "", "struct", "IPAMConfig"),
    F("External", <<"E","x","t","e","r","n","a","l">>, "", "struct", "External"),
    F("Labels", <<"L","a","b","e","l","s">>, "list_or_dict_equals", "map_string", "")
    >>

\* type IPAMConfig struct, src/types/types.go:108-111
IPAMConfigFields ==
    <<
    F("Driver", <<"D","r","i","v","e","r">>, "", "string", ""),
    F("Config", <<"C","o","n","f","i","g">>, "", "slice_ptr_struct", "IPAMPool")
    >>

\* type IPAMPool struct, src/types/types.go:113-115
IPAMPoolFields ==
    <<
    F("Subnet", <<"S","u","b","n","e","t">>, "", "string", "")
    >>

\* type VolumeConfig struct, src/types/types.go:117-122
VolumeConfigFields ==
    <<
    F("Driver", <<"D","r","i","v","e","r">>, "", "string", ""),
    F("DriverOpts", <<"D","r","i","v","e","r","O","p","t","s">>, "", "map_string", ""),
    F("External", <<"E","x","t","e","r","n","a","l">>, "", "struct", "External"),
    F("Labels", <<"L","a","b","e","l","s">>, "list_or_dict_equals", "map_string", "")
    >>

\* type External struct, src/types/types.go:126-129
ExternalFields ==
    <<
    F("Name", <<"N","a","m","e">>, "", "string", ""),
    F("External", <<"E","x","t","e","r","n","a","l">>, "", "bool", "")
    >>

Fields(type) ==
    CASE type = "ServiceConfig" -> ServiceConfigFields
      [] type = "LoggingConfig" -> LoggingConfigFields
      [] type = "DeployConfig" -> DeployConfigFields
      [] type = "Placement" -> PlacementFields
      [] type = "ServiceNetworkConfig" -> ServiceNetworkConfigFields
      [] type = "UlimitsConfig" -> UlimitsConfigFields
      [] type = "NetworkConfig" -> NetworkConfigFields
      [] type = "IPAMConfig" -> IPAMConfigFields
      [] type = "IPAMPool" -> IPAMPoolFields
      [] type = "VolumeConfig" -> VolumeConfigFields
      [] type = "External" -> ExternalFields

\* the document key of every field of a type, in field order
YAMLNames(type) == [i \in 1..Len(Fields(type)) |-> toYAMLName(Fields(type)[i].chars)]

\* fields the loader assigns that the declarations of src/types/types.go do not list
AssignedFields(type) ==
    IF type \in {"NetworkConfig", "VolumeConfig"} THEN {"ExternalName"} ELSE {}

RECURSIVE ZeroValue(_)
RECURSIVE ZeroStruct(_)

\* the zero value of a field
ZeroValue(field) ==
    CASE field.kind = "string" -> VStr(S_empty)
      [] field.kind = "bool" -> VBool(FALSE)
      [] field.kind \in {"int", "int64", "uint64"} -> VInt(0)
      [] field.kind = "struct" -> ZeroStruct(field.elem)
      [] OTHER -> Nil

\* types.T{}
ZeroStruct(type) ==
    [t |-> "struct", type |-> type,
     f |-> [name \in {Fields(type)[i].name : i \in 1..Len(Fields(type))} \cup AssignedFields(type) |->
              IF name \in AssignedFields(type) THEN VStr(S_empty)
              ELSE ZeroValue(CHOOSE field \in {Fields(type)[i] : i \in 1..Len(Fields(type))} :
                                field.name = name)]]

\* a struct with one field assigned
SetField(struct, name, value) ==
    [struct EXCEPT !.f = [n \in DOMAIN struct.f |-> IF n = name THEN value ELSE struct.f[n]]]

-----------------------------------------------------------------------------
(* The reflective field decoder *)

RECURSIVE loadStruct(_, _)
RECURSIVE loadStructFields(_, _, _, _)
RECURSIVE loadListOfStructsItems(_, _, _, _)

\* the outcomes of a loop over the entries of a map, given the outcomes of every entry: an
\* entry that fails ends the loop, and any failing entry may be the first one met
RangeOverMap(outs) ==
    IF \E name \in DOMAIN outs : Failures(outs[name]) # {}
    THEN UNION {Failures(outs[name]) : name \in DOMAIN outs}
    ELSE {Ok(GoMap([name \in DOMAIN outs |-> TheOk(outs[name])]))}

\* the loop of loadListOfStructs: items in index order, appended to dest
loadListOfStructsItems(listOfDicts, elem, i, result) ==
    IF i > Len(listOfDicts) THEN {Ok(IF result = <<>> THEN Nil ELSE GoSlice(result))}
    ELSE IF listOfDicts[i].t # "dict" THEN {Panic("loadListOfStructs: item.(types.Dict)")}
    ELSE UNION {IF out.t # "ok" THEN {out}
                ELSE loadListOfStructsItems(listOfDicts, elem, i + 1, Append(result, out.v)) :
                   out \in loadStruct(listOfDicts[i], elem)}

loadListOfStructs(value, elem) ==
    IF value.t # "list" THEN {Panic("loadListOfStructs: value.([]interface{})")}
    ELSE loadListOfStructsItems(value.items, elem, 1, <<>>)

\* SetMapIndex with reflect.ValueOf(nil) as the element deletes the key, so the
\* list form leaves the fresh map empty; a name that is not a string cannot be a key
loadListOrStructMap(value, elem) ==
    IF value.t = "list" THEN
        IF \E i \in 1..Len(value.items) : value.items[i].t # "string"
        THEN {Panic("loadListOrStructMap: SetMapIndex")}
        ELSE {Ok(GoMap(EmptyMap))}
    ELSE IF value.t # "dict" THEN {Panic("loadListOrStructMap: value.(types.Dict)")}
    ELSE RangeOverMap([name \in DOMAIN value.m |->
            IF value.m[name] = VNull THEN {Ok(ZeroStruct(elem))}
            ELSE IF value.m[name].t # "dict"
                 THEN {Panic("loadListOrStructMap: item.(types.Dict)")}
            ELSE loadStruct(value.m[name], elem)])

\* the if/else chain of loadStruct for one field whose key is present
loadField(field, value) ==
    CASE field.tag = "list_or_dict_equals" -> {loadMappingOrList(value, <<"=">>)}
      [] field.tag = "list_or_dict_colon" -> {loadMappingOrList(value, <<":">>)}
      [] field.tag = "list_or_struct_map" -> loadListOrStructMap(value, field.elem)
      [] field.tag = "string_or_list" -> {loadStringOrListOfStrings(value)}
      [] field.tag = "list_of_strings_or_numbers" -> {loadListOfStringsOrNumbers(value)}
      [] field.tag = "shell_command" -> {loadShellCommand(value)}
      [] field.tag = "size" -> {loadSize(value)}
      [] field.tag = "-" -> {Ok(None)}
      [] field.tag \notin {"list_or_dict_equals", "list_or_dict_colon", "list_or_struct_map",
                           "string_or_list", "list_of_strings_or_numbers", "shell_command",
                           "size", "-", ""} -> {Panic("Unrecognised field tag")}
      [] field.tag = "" /\ field.kind = "string" ->
            {IF value.t = "string" THEN Ok(value) ELSE Panic("loadStruct: value.(string)")}
      [] field.tag = "" /\ field.kind = "bool" ->
            {IF value.t = "bool" THEN Ok(value) ELSE Panic("loadStruct: value.(bool)")}
      [] field.tag = "" /\ field.kind = "slice_string" -> {loadListOfStrings(value)}
      [] field.tag = "" /\ field.kind = "slice_ptr_struct" -> loadListOfStructs(value, field.elem)
      [] field.tag = "" /\ field.kind = "map_string" -> {loadStringMapping(value)}
      [] field.tag = "" /\ field.kind = "struct" ->
            IF value.t = "dict" THEN loadStruct(value, field.elem)
            ELSE {Panic("loadStruct: value.(types.Dict)")}
      [] OTHER -> {Panic("Can't load")}

\* mutant: a field that fails is left at its zero value and the loop goes on
loadStructFields_keepGoing(dict, type, i, dest) ==
    IF i > Len(Fields(type)) THEN {Ok(dest)}
    ELSE IF YAMLNames(type)[i] \notin DOMAIN dict.m
         THEN loadStructFields(dict, type, i + 1, dest)
    ELSE UNION {loadStructFields(dict, type, i + 1,
                    IF out.t # "ok" \/ out.v = None THEN dest
                    ELSE SetField(dest, Fields(type)[i].name, out.v)) :
                   out \in loadField(Fields(type)[i], dict.m[YAMLNames(type)[i]])}

\* the loop of loadStruct over the fields of the destination, in declaration order
loadStructFields(dict, type, i, dest) ==
    IF i > Len(Fields(type)) THEN {Ok(dest)}
    ELSE IF YAMLNames(type)[i] \notin DOMAIN dict.m
         THEN loadStructFields(dict, type, i + 1, dest)
    ELSE UNION {IF out.t # "ok" THEN {out}
                ELSE loadStructFields(dict, type, i + 1,
                        IF out.v = None THEN dest
                        ELSE SetField(dest, Fields(type)[i].name, out.v)) :
                   out \in loadField(Fields(type)[i], dict.m[YAMLNames(type)[i]])}

\* mutant: a key of the mapping that is no field's document key is an error
loadStruct_strict(dict, type) ==
    IF \E key \in DOMAIN dict.m : \A i \in 1..Len(Fields(type)) : YAMLNames(type)[i] # key
    THEN {Err("UnknownKey", <<>>)}
    ELSE loadStructFields(dict, type, 1, ZeroStruct(type))

loadStruct(dict, type) == loadStructFields(dict, type, 1, ZeroStruct(type))

-----------------------------------------------------------------------------
(* Entity assemblers *)

S_ulimits == <<"u","l","i","m","i","t","s">>
S_soft == <<"s","o","f","t">>
S_hard == <<"h","a","r","d">>
S_external == <<"e","x","t","e","r","n","a","l">>
S_name == <<"n","a","m","e">>

\* *types.UlimitsConfig with the given limits
Ulimit(single, soft, hard) ==
    [t |-> "struct", type |-> "UlimitsConfig",
     f |-> [name \in {"Single", "Soft", "Hard"} |->
              VInt(CASE name = "Single" -> single [] name = "Soft" -> soft [] name = "Hard" -> hard)]]


loadUlimits(value) ==
    IF value.t # "dict" THEN {Panic("loadUlimits: value.(types.Dict)")}
    ELSE LET item(name) == value.m[name]
             out(name) ==
                IF item(name).t = "int" THEN Ok(Ulimit(item(name).n, 0, 0))
                ELSE IF item(name).t # "dict" THEN Panic("loadUlimits: item.(types.Dict)")
                ELSE IF S_soft \notin DOMAIN item(name).m \/ item(name).m[S_soft].t # "int"
                     THEN Panic("loadUlimits: soft.(int)")
                ELSE IF S_hard \notin DOMAIN item(name).m \/ item(name).m[S_hard].t # "int"
                     THEN Panic("loadUlimits: hard.(int)")
                ELSE Ok(Ulimit(0, item(name).m[S_soft].n, item(name).m[S_hard].n))
             failures == Failures({out(name) : name \in DOMAIN value.m})
         IN IF failures # {} THEN failures
            ELSE {Ok(GoMap([name \in DOMAIN value.m |-> out(name).v]))}

\* mutant: the key is used as the name only when the mapping gave none
loadService_keepName(name, serviceDict) ==
    UNION {IF serviceConfig.t # "ok" THEN {serviceConfig}
           ELSE IF serviceConfig.v.f["Name"] # VStr(S_empty) THEN {serviceConfig}
           ELSE {Ok(SetField(serviceConfig.v, "Name", VStr(name)))} :
              serviceConfig \in loadStruct(serviceDict, "ServiceConfig")}

loadService(name, serviceDict) ==
    UNION {IF serviceConfig.t # "ok" THEN {serviceConfig}
           ELSE IF S_ulimits \notin DOMAIN serviceDict.m
                THEN {Ok(SetField(serviceConfig.v, "Name", VStr(name)))}
           ELSE {IF ulimits.t # "ok" THEN ulimits
                 ELSE Ok(SetField(SetField(serviceConfig.v, "Name", VStr(name)),
                                  "Ulimits", ulimits.v)) :
                    ulimits \in loadUlimits(serviceDict.m[S_ulimits])} :
              serviceConfig \in loadStruct(serviceDict, "ServiceConfig")}

\* every order in which the elements of a finite set can be met
RECURSIVE Orders(_)
Orders(set) ==
    IF set = {} THEN {<<>>}
    ELSE UNION {{<<x>> \o rest : rest \in Orders(set \ {x})} : x \in set}

\* mutant: each service replaces the list instead of being appended to it
loadServices_lastWins(servicesDict) ==
    UNION {IF services.t # "ok" THEN {services}
           ELSE IF DOMAIN services.v.m = {} THEN {Ok(Nil)}
           ELSE {Ok(GoSlice(<<services.v.m[name]>>)) : name \in DOMAIN services.v.m} :
              services \in RangeOverMap([name \in DOMAIN servicesDict.m |->
                 IF servicesDict.m[name].t # "dict"
                 THEN {Panic("loadServices: serviceDef.(types.Dict)")}
                 ELSE loadService(name, servicesDict.m[name])])}

\* the services are appended in the order the map is iterated
loadServices(servicesDict) ==
    UNION {IF services.t # "ok" THEN {services}
           ELSE IF DOMAIN services.v.m = {} THEN {Ok(Nil)}
           ELSE {Ok(GoSlice([i \in 1..Len(order) |-> services.v.m[order[i]]])) :
                    order \in Orders(DOMAIN services.v.m)} :
              services \in RangeOverMap([name \in DOMAIN servicesDict.m |->
                 IF servicesDict.m[name].t # "dict"
                 THEN {Panic("loadServices: serviceDef.(types.Dict)")}
                 ELSE loadService(name, servicesDict.m[name])])}

loadExternalName(resourceName, value) ==
    IF value.t = "bool" THEN Ok(VStr(IF value.b THEN resourceName ELSE S_empty))
    ELSE IF value.t # "dict" THEN Panic("loadExternalName: value.(types.Dict)")
    ELSE IF S_name \notin DOMAIN value.m \/ value.m[S_name].t # "string"
         THEN Panic("loadExternalName: name.(string)")
    ELSE Ok(value.m[S_name])

loadNetwork(name, networkDict) ==
    UNION {IF network.t # "ok" \/ S_external \notin DOMAIN networkDict.m THEN {network}
           ELSE LET externalName == loadExternalName(name, networkDict.m[S_external])
                IN IF externalName.t # "ok" THEN {externalName}
                   ELSE {Ok(SetField(network.v, "ExternalName", externalName.v))} :
              network \in loadStruct(networkDict, "NetworkConfig")}

\* mutant: a null entry is passed over and gets no entry in the result
loadNetworks_skipNull(networksDict) ==
    RangeOverMap([name \in {n \in DOMAIN networksDict.m : networksDict.m[n] # VNull} |->
        IF networksDict.m[name].t # "dict"
        THEN {Panic("loadNetworks: networkDef.(types.Dict)")}
        ELSE loadNetwork(name, networksDict.m[name])])

\* a null entry gives the zero record; the other entries are decoded in map order
loadNetworks(networksDict) ==
    RangeOverMap([name \in DOMAIN networksDict.m |->
        IF networksDict.m[name] = VNull THEN {Ok(ZeroStruct("NetworkConfig"))}
        ELSE IF networksDict.m[name].t # "dict"
             THEN {Panic("loadNetworks: networkDef.(types.Dict)")}
        ELSE loadNetwork(name, networksDict.m[name])])

loadVolume(name, volumeDict) ==
    UNION {IF volume.t # "ok" \/ S_external \notin DOMAIN volumeDict.m THEN {volume}
           ELSE LET externalName == loadExternalName(name, volumeDict.m[S_external])
                IN IF externalName.t # "ok" THEN {externalName}
                   ELSE {Ok(SetField(volume.v, "ExternalName", externalName.v))} :
              volume \in loadStruct(volumeDict, "VolumeConfig")}

\* a null entry gives the zero record; the other entries are decoded in map order
loadVolumes(volumesDict) ==
    RangeOverMap([name \in DOMAIN volumesDict.m |->
        IF volumesDict.m[name] = VNull THEN {Ok(ZeroStruct("VolumeConfig"))}
        ELSE IF volumesDict.m[name].t # "dict"
             THEN {Panic("loadVolumes: volumeDef.(types.Dict)")}
        ELSE loadVolume(name, volumesDict.m[name])])

-----------------------------------------------------------------------------
(* Documents given to the loader *)

S_foo == <<"f","o","o">>
S_bar == <<"b","a","r">>
S_image == <<"i","m","a","g","e">>
S_busybox == <<"b","u","s","y","b","o","x">>
S_latest == <<"l","a","t","e","s","t">>
S_environment == <<"e","n","v","i","r","o","n","m","e","n","t">>
S_FOO_eq_1 == <<"F","O","O","=","1">>
S_QUUX == <<"Q","U","U","X">>
S_FOO == <<"F","O","O">>
S_default == <<"d","e","f","a","u","l","t">>
S_driver == <<"d","r","i","v","e","r">>
S_bridge == <<"b","r","i","d","g","e">>
S_ipam == <<"i","p","a","m">>
S_config == <<"c","o","n","f","i","g">>
S_oh_dear == <<"o","h"," ","d","e","a","r">>
S_data == <<"d","a","t","a">>
S_local == <<"l","o","c","a","l">>
S_command == <<"c","o","m","m","a","n","d">>
S_mem_limit == <<"m","e","m","_","l","i","m","i","t">>
S_echo_open_quote == <<"e","c","h","o"," ","'","x">>
S_echo_hi == <<"e","c","h","o"," ","h","i">>
S_size_1k == <<"1","k">>
S_size_1x == <<"1","x">>
S_hello == <<"h","e","l","l","o">>

\* a map[interface{}]interface{} whose keys are all strings
RawOf(entries) == VRawMap([key \in {VStr(str) : str \in DOMAIN entries} |-> entries[key.s]])

\* a map entry, or no entry when the value is absent
Entry(key, value) == IF value = None THEN EmptyMap ELSE (key :> value)

\* service bodies: decodable ones, ones a coercion returns an error for, ones a type assertion aborts on
ServiceBodies ==
    { RawOf(S_image :> VStr(S_busybox)),
      RawOf(S_image :> VStr(S_busybox) @@ S_environment :> VList(<<VStr(S_FOO_eq_1), VStr(S_QUUX)>>)),
      RawOf(S_environment :> RawOf(S_FOO :> VInt(1) @@ S_QUUX :> VNull)),
      RawOf(S_image :> VStr(S_busybox) @@ S_command :> VStr(S_echo_hi) @@ S_mem_limit :> VStr(S_size_1k)),
      RawOf(S_command :> VStr(S_echo_open_quote)),
      RawOf(S_image :> VStr(S_busybox) @@ S_mem_limit :> VStr(S_size_1x)),
      RawOf(S_image :> VList(<<VStr(S_busybox), VStr(S_latest)>>)),
      RawOf(S_environment :> VStr(S_FOO_eq_1)),
      RawOf(S_image :> VStr(S_busybox) @@ S_environment :> VRawMap(VInt(1) :> VStr(S_FOO))) }

\* the services section: absent, not a mapping, one or two services, a non-string service name
ServicesOptions ==
    {None, VList(<<RawOf(S_foo :> RawOf(S_image :> VStr(S_busybox)))>>), RawOf(EmptyMap),
     RawOf(S_foo :> VStr(S_busybox)),
     VRawMap(VStr(S_foo) :> RawOf(S_image :> VStr(S_busybox))
             @@ VInt(123) :> RawOf(S_image :> VStr(S_busybox)))}
    \cup {RawOf(S_foo :> body) : body \in ServiceBodies}
    \cup {RawOf(S_foo :> body @@ S_bar :> RawOf(S_image :> VStr(S_busybox))) : body \in ServiceBodies}
    \cup {RawOf(S_foo :> RawOf(S_command :> VStr(S_echo_open_quote))
                @@ S_bar :> RawOf(S_image :> VStr(S_busybox) @@ S_mem_limit :> VStr(S_size_1x)))}

NetworksOptions ==
    {None,
     RawOf(S_default :> VNull),
     RawOf(S_default :> RawOf(S_driver :> VStr(S_bridge))),
     RawOf(S_default :> RawOf(S_driver :> VInt(1))),
     RawOf(S_default :> RawOf(S_ipam :> RawOf(S_config :> VList(<<RawOf(S_driver :> VStr(S_bridge))>>)))),
     RawOf(S_default :> RawOf(S_ipam :> RawOf(S_config :> VList(<<VRawMap(VInt(123) :> VStr(S_oh_dear))>>))))}

VolumesOptions ==
    {None,
     RawOf(S_data :> VNull @@ S_hello :> RawOf(S_driver :> VStr(S_local))),
     RawOf(S_data :> VStr(S_local))}

VersionOptions == {None, VStr(S_2_1), VStr(S_2), VStr(S_2_0), VFloat(21)}

\* further top-level entries: none, a non-string key, a mapping under the empty key
ExtraOptions ==
    {EmptyMap,
     VInt(123) :> RawOf(S_foo :> RawOf(S_image :> VStr(S_busybox))),
     VStr(S_empty) :> VRawMap(VInt(123) :> VStr(S_oh_dear))}

Document(version, services, networks, volumes, extra) ==
    VRawMap(Entry(VStr(S_version), version) @@ Entry(VStr(S_services), services)
            @@ Entry(VStr(S_networks), networks) @@ Entry(VStr(S_volumes), volumes) @@ extra)

\* what yaml.Unmarshal can hand to ParseYAML: values that are no mapping, documents of the
\* supported version in every combination of sections, and documents of every version with
\* and without further top-level entries
Sources ==
    { [t |-> "yamlerror"], VNull, VInt(1), VStr(S_hello), VList(<<VStr(S_hello)>>) }
    \cup { Document(VStr(S_2_1), services, networks, volumes, EmptyMap) :
             services \in ServicesOptions, networks \in NetworksOptions, volumes \in VolumesOptions }
    \cup { Document(version, services, networks, None, extra) :
             version \in VersionOptions,
             services \in {None, RawOf(S_foo :> RawOf(S_image :> VStr(S_busybox)))},
             networks \in {None, RawOf(S_default :> RawOf(S_driver :> VStr(S_bridge)))},
             extra \in ExtraOptions }

-----------------------------------------------------------------------------
(* Load *)

\* types.Config{}
EmptyConfig == [Services |-> Nil, Networks |-> Nil, Volumes |-> Nil]

\* a return of the pair of *types.Config and error
Returned(config, err) == [t |-> "return", config |-> config, err |-> err]

\* schema.Validate: the verdict comes from gojsonschema and the bundled schema
Validate(config) ==
    IF schemaValid THEN Nil ELSE Err("SchemaValidationError", <<>>)

\* mutant: the verdict of the validator is dropped
validateAgainstConfigSchema_skip(file) == Nil

validateAgainstConfigSchema(file) == Validate(file)

\* mutant: several files are accepted and the first one is used
LoadFileCount_first(n) ==
    IF n < 1 THEN Err("NoFiles", <<>>) ELSE Nil

\* Load, lines 48-53: the error for a wrong number of files, Nil for exactly one
LoadFileCount(n) ==
    IF n < 1 THEN Err("NoFiles", <<>>)
    ELSE IF n > 1 THEN Err("MultipleFiles", <<>>)
    ELSE Nil

\* mutant: only the major version is compared
LoadVersion_major(config) ==
    IF S_version \notin DOMAIN config.m \/ config.m[S_version].t # "string"
    THEN Panic("Load: version.(string)")
    ELSE IF config.m[S_version].s = <<>> \/ Head(config.m[S_version].s) # Head(S_2_1)
         THEN Err("UnsupportedVersion", config.m[S_version].s)
    ELSE Nil

\* Load, lines 62-65: the version entry is asserted to be a string and compared
LoadVersion(config) ==
    IF S_version \notin DOMAIN config.m \/ config.m[S_version].t # "string"
    THEN Panic("Load: version.(string)")
    ELSE IF config.m[S_version].s # S_2_1
         THEN Err("UnsupportedVersion", config.m[S_version].s)
    ELSE Nil

\* how a call ends on a failure: an error is returned with a nil Config, a panic unwinds
Fail(failure) ==
    /\ ret' = IF failure.t = "panic" THEN failure ELSE Returned(Nil, failure)
    /\ pc' = "done"

Init ==
    /\ source \in Sources
    /\ nfiles \in 0..MaxFiles
    /\ schemaValid \in BOOLEAN
    /\ pc = "loadYAML"
    /\ configFile = None
    /\ cfg = None
    /\ ret = None
    /\ trace = <<>>
    /\ helperArg = None
    /\ helperSep = None
    /\ helperOut = None
    /\ helperFn = None
    /\ helperWith = None

\* the test helper: ParseYAML, then Load on the ConfigDetails built from its result
loadYAML ==
    /\ pc = "loadYAML"
    /\ \E parsed \in ParseYAML(source) :
         IF parsed.t = "ok"
         THEN /\ configFile' = parsed.v
              /\ pc' = "Load"
              /\ UNCHANGED ret
         ELSE /\ Fail(parsed)
              /\ UNCHANGED configFile
    /\ UNCHANGED <<source, nfiles, schemaValid, cfg, trace, helperVars>>

\* mutant: Load goes from the file count straight to the version check
Load_files_skipValidate ==
    /\ pc = "Load"
    /\ trace' = Append(trace, "files")
    /\ IF LoadFileCount(nfiles) # Nil
       THEN Fail(LoadFileCount(nfiles)) /\ UNCHANGED cfg
       ELSE /\ cfg' = EmptyConfig
            /\ pc' = "version"
            /\ UNCHANGED ret
    /\ UNCHANGED <<source, nfiles, schemaValid, configFile, helperVars>>

\* Load, lines 48-56
Load_files ==
    /\ pc = "Load"
    /\ trace' = Append(trace, "files")
    /\ IF LoadFileCount(nfiles) # Nil
       THEN Fail(LoadFileCount(nfiles)) /\ UNCHANGED cfg
       ELSE /\ cfg' = EmptyConfig
            /\ pc' = "validate"
            /\ UNCHANGED ret
    /\ UNCHANGED <<source, nfiles, schemaValid, configFile, helperVars>>

\* Load, lines 58-60
Load_validate ==
    /\ pc = "validate"
    /\ trace' = Append(trace, "validate")
    /\ LET err == validateAgainstConfigSchema(configFile)
       IN IF err # Nil THEN Fail(err)
          ELSE pc' = "version" /\ UNCHANGED ret
    /\ UNCHANGED <<source, nfiles, schemaValid, configFile, cfg, helperVars>>

\* Load, lines 62-65
Load_version ==
    /\ pc = "version"
    /\ trace' = Append(trace, "version")
    /\ IF LoadVersion(configFile) # Nil
       THEN Fail(LoadVersion(configFile))
       ELSE pc' = "services" /\ UNCHANGED ret
    /\ UNCHANGED <<source, nfiles, schemaValid, configFile, cfg, helperVars>>

\* one of the three if-blocks of Load: Nil when the key is absent, an abort when the section
\* is no mapping, otherwise what its decoder gives
LoadSection(config, key, decoded) ==
    IF key \notin DOMAIN config.m THEN {Ok(Nil)}
    ELSE IF config.m[key].t # "dict" THEN {Panic("Load: section.(types.Dict)")}
    ELSE decoded

\* mutant: a section that fails is left unassigned and Load goes on to the next one
LoadStep_goOn(key, field, next, decoded) ==
    /\ trace' = IF key \in DOMAIN configFile.m THEN Append(trace, field) ELSE trace
    /\ \E loaded \in LoadSection(configFile, key, decoded) :
         /\ cfg' = IF key \in DOMAIN configFile.m /\ loaded.t = "ok"
                   THEN [cfg EXCEPT ![field] = loaded.v] ELSE cfg
         /\ pc' = next
         /\ UNCHANGED ret

\* the if-block of a section and the assignment of its result to the Config
LoadStep(key, field, next, decoded) ==
    /\ trace' = IF key \in DOMAIN configFile.m THEN Append(trace, field) ELSE trace
    /\ \E loaded \in LoadSection(configFile, key, decoded) :
         IF loaded.t = "ok"
         THEN /\ cfg' = IF key \in DOMAIN configFile.m THEN [cfg EXCEPT ![field] = loaded.v] ELSE cfg
              /\ pc' = next
              /\ UNCHANGED ret
         ELSE Fail(loaded) /\ UNCHANGED cfg

\* Load, lines 67-73
Load_services ==
    /\ pc = "services"
    /\ LoadStep(S_services, "Services", "networks", loadServices(configFile.m[S_services]))
    /\ UNCHANGED <<source, nfiles, schemaValid, configFile, helperVars>>

\* Load, lines 75-81
Load_networks ==
    /\ pc = "networks"
    /\ LoadStep(S_networks, "Networks", "volumes", loadNetworks(configFile.m[S_networks]))
    /\ UNCHANGED <<source, nfiles, schemaValid, configFile, helperVars>>

\* Load, lines 83-89
Load_volumes ==
    /\ pc = "volumes"
    /\ LoadStep(S_volumes, "Volumes", "return", loadVolumes(configFile.m[S_volumes]))
    /\ UNCHANGED <<source, nfiles, schemaValid, configFile, helperVars>>

\* Load, line 91
Load_return ==
    /\ pc = "return"
    /\ ret' = Returned(cfg, Nil)
    /\ pc' = "done"
    /\ UNCHANGED <<source, nfiles, schemaValid, configFile, cfg, trace, helperVars>>

Next ==
    \/ loadYAML
    \/ Load_files
    \/ Load_validate
    \/ Load_version
    \/ Load_services
    \/ Load_networks
    \/ Load_volumes
    \/ Load_return

Spec == Init /\ [][Next]_vars

TypeOK ==
    /\ pc \in {"loadYAML", "Load", "validate", "version", "services", "networks", "volumes",
               "return", "done", "helper"}
    /\ ret.t \in {"none", "return", "panic"}
    /\ (pc = "done") = (ret # None)

-----------------------------------------------------------------------------
(* A coercion helper called on its own *)

S_A_eq_b_eq_c == <<"A","=","b","=","c">>
S_FOO_eq_2 == <<"F","O","O","=","2">>
S_A_colon_b_eq_c == <<"A",":","b","=","c">>
S_A == <<"A">>
S_1 == <<"1">>

\* list items: strings with one, several or no separator, a repeated key, a non-string
HelperItems ==
    {VStr(S_FOO_eq_1), VStr(S_A_eq_b_eq_c), VStr(S_QUUX), VStr(S_FOO_eq_2),
     VStr(S_A_colon_b_eq_c), VInt(1)}

\* mapping values: null, scalars, and the two containers
HelperValues ==
    {VNull, VInt(1), VFloat(25), VStr(S_1), VBool(TRUE), VList(<<VStr(S_1)>>),
     VDict(S_FOO :> VInt(1))}

HelperArgs ==
    {VList(items) : items \in UNION {[1..n -> HelperItems] : n \in 0..MaxItems}}
    \cup {VDict(m) : m \in UNION {[keys -> HelperValues] : keys \in SUBSET {S_FOO, S_QUUX}}}
    \cup {VStr(S_FOO_eq_1), VInt(3), VNull}

InitHelper ==
    /\ source = VNull
    /\ nfiles = 0
    /\ schemaValid = TRUE
    /\ pc = "helper"
    /\ configFile = None
    /\ cfg = None
    /\ ret = None
    /\ trace = <<>>
    /\ helperArg \in HelperArgs
    /\ helperSep \in {<<"=">>, <<":">>}
    /\ helperOut = None
    /\ helperFn = "loadMappingOrList"
    /\ helperWith = None

\* loadStruct's call for a list_or_dict_equals or list_or_dict_colon field
callMappingOrList ==
    /\ pc = "helper"
    /\ helperOut = None
    /\ helperOut' = loadMappingOrList(helperArg, helperSep)
    /\ UNCHANGED <<loadVars, helperArg, helperSep, helperFn, helperWith>>

NextHelper == callMappingOrList

SpecHelper == InitHelper /\ [][NextHelper]_vars

-----------------------------------------------------------------------------
(* The other helpers of the decoder, each called on its own *)

S_a == <<"a">>
S_b == <<"b">>
S_a_b == <<"a"," ","b">>

\* a call of a helper: the function, its document value and its other argument
Call(fn, arg, with) == [fn |-> fn, arg |-> arg, with |-> with]

\* values for a string_or_list field: strings, lists of strings, and shapes it aborts on
StringOrListArgs ==
    {VStr(S_busybox), VStr(S_empty), VStr(S_a_b), VInt(3), VNull, VDict(S_a :> VStr(S_b))}
    \cup {VList(items) :
            items \in UNION {[1..n -> {VStr(S_a), VStr(S_b), VStr(S_busybox), VInt(1)}] :
                               n \in 0..MaxItems}}

S_nproc == <<"n","p","r","o","c">>
S_nofile == <<"n","o","f","i","l","e">>
S_many == <<"m","a","n","y">>

\* the value of one limit: a bare integer, soft and hard limits, and shapes that are neither
UlimitItems ==
    {VInt(65535),
     VDict(S_soft :> VInt(20000) @@ S_hard :> VInt(40000)),
     VDict(S_soft :> VInt(20000)),
     VDict(S_soft :> VInt(20000) @@ S_hard :> VStr(S_many)),
     VStr(S_many)}

\* the ulimits entry of a service: up to two limits, or a value that is no mapping
UlimitArgs ==
    {VDict(m) : m \in UNION {[names -> UlimitItems] : names \in SUBSET {S_nproc, S_nofile}}}
    \cup {VList(<<VInt(65535)>>), VInt(65535)}

S_my_net == <<"m","y","-","n","e","t">>
S_yes == <<"y","e","s">>

\* the external entry of a network or volume: the two booleans, a mapping with a name, and
\* shapes that are none of these
ExternalValues ==
    {VBool(TRUE), VBool(FALSE),
     VDict(S_name :> VStr(S_my_net)),
     VDict(S_name :> VStr(S_my_net) @@ S_driver :> VStr(S_bridge)),
     VDict(EmptyMap),
     VDict(S_name :> VInt(1)),
     VDict(S_name :> VNull),
     VStr(S_yes), VInt(1), VList(<<VStr(S_my_net)>>)}


RECURSIVE SplitAll(_, _)
\* the elements of a path between its separators
SplitAll(s, sep) ==
    LET i == Index(s, sep, 1)
    IN IF i = 0 THEN <<s>>
       ELSE <<SubSeq(s, 1, i - 1)>> \o SplitAll(SubSeq(s, i + Len(sep), Len(s)), sep)

S_slash == <<"/">>
S_dot == <<".">>
S_dotdot == <<".",".">>
S_tilde == <<"~">>
S_colon == <<":">>
S_work == <<"/","w","o","r","k">>
S_tilde_app == <<"~","/","a","p","p">>
S_home_u == <<"/","h","o","m","e","/","u">>
S_dot_data == <<".","/","d","a","t","a",":","/","d","a","t","a">>
S_up == <<".",".","/","u","p",":","/","u","p",":","r","o">>
S_here == <<".",":","/","s","r","c">>
S_tilde_cfg == <<"~","/","c","f","g",":","/","c","f","g">>
S_abs == <<"/","a","b","s",":","/","x">>
S_named == <<"n","a","m","e","d",":","/","x">>
S_tilde_cache == <<"~","/","c","a","c","h","e">>
S_dot_cache == <<".","/","c","a","c","h","e">>

RECURSIVE CleanElems(_, _, _)
\* path.Clean, element by element: empty and "." elements go, ".." takes back the element
\* before it, is dropped at the root, and is kept at the start of a relative path
CleanElems(elems, rooted, out) ==
    IF elems = <<>> THEN out
    ELSE LET elem == Head(elems)
         IN IF elem = S_empty \/ elem = S_dot THEN CleanElems(Tail(elems), rooted, out)
            ELSE IF elem # S_dotdot THEN CleanElems(Tail(elems), rooted, Append(out, elem))
            ELSE IF out # <<>> /\ out[Len(out)] # S_dotdot
                 THEN CleanElems(Tail(elems), rooted, SubSeq(out, 1, Len(out) - 1))
            ELSE IF rooted THEN CleanElems(Tail(elems), rooted, out)
            ELSE CleanElems(Tail(elems), rooted, Append(out, elem))

\* path.Clean
Clean(p) ==
    IF p = S_empty THEN S_dot
    ELSE LET rooted == Head(p) = "/"
             cleaned == (IF rooted THEN S_slash ELSE S_empty)
                        \o Join(CleanElems(SplitAll(p, S_slash), rooted, <<>>), S_slash)
         IN IF cleaned = S_empty THEN S_dot ELSE cleaned

RECURSIVE NonEmpty(_)
\* the elements of a path.Join call that are not ""
NonEmpty(elems) ==
    IF elems = <<>> THEN <<>>
    ELSE IF Head(elems) = S_empty THEN NonEmpty(Tail(elems))
    ELSE <<Head(elems)>> \o NonEmpty(Tail(elems))

\* path.Join: the non-empty elements joined with "/" and cleaned
PathJoin(elems) ==
    LET used == NonEmpty(elems)
    IN IF used = <<>> THEN S_empty ELSE Clean(Join(used, S_slash))

\* mutant: the path is returned as it is
expandUser_asIs(p, home) == p

\* expandUser: a leading "~" is replaced by $HOME
expandUser(p, home) ==
    IF HasPrefix(p, S_tilde)
    THEN LET i == Index(p, S_tilde, 1)
         IN SubSeq(p, 1, i - 1) \o home \o SubSeq(p, i + 1, Len(p))
    ELSE p

\* mutant: an entry with no ":" is taken for a source and resolved as well
resolveVolumePath_noSkip(mapping, workingDir, home) ==
    LET parts == SplitN2(mapping, S_colon)
        joined == IF HasPrefix(parts[1], S_dot)
                  THEN PathJoin(<<workingDir, parts[1]>>)
                  ELSE parts[1]
    IN Join(<<expandUser(joined, home)>> \o Tail(parts), S_colon)

\* one pass of the loop of resolveVolumePaths over the entry mapping
resolveVolumePath(mapping, workingDir, home) ==
    LET parts == SplitN2(mapping, S_colon)
    IN IF Len(parts) = 1 THEN mapping
       ELSE LET joined == IF HasPrefix(parts[1], S_dot)
                          THEN PathJoin(<<workingDir, parts[1]>>)
                          ELSE parts[1]
            IN Join(<<expandUser(joined, home), parts[2]>>, S_colon)

\* resolveVolumePaths: the volumes slice after the call, which returns a nil error
resolveVolumePaths(volumes, workingDir, home) ==
    [i \in 1..Len(volumes) |-> resolveVolumePath(volumes[i], workingDir, home)]

\* the volumes of a service: sources under the working directory, above it, in the home
\* directory, absolute and named, and an entry with no source
VolumeEntries ==
    {S_dot_data, S_up, S_here, S_tilde_cfg, S_abs, S_named, S_dot_cache, S_tilde_cache}

\* ConfigDetails.WorkingDir and $HOME
WorkingDirs == {S_work, S_dot, S_tilde_app}
Homes == {S_home_u, S_empty}

VolumeLists == UNION {[1..n -> VolumeEntries] : n \in 0..MaxItems}


\* the mapstructure tags of ServiceConfig: the document key each tagged field is declared with
MapstructureTags ==
    "CapAdd" :> <<"c","a","p","_","a","d","d">>
    @@ "CapDrop" :> <<"c","a","p","_","d","r","o","p">>
    @@ "CgroupParent" :> <<"c","g","r","o","u","p","_","p","a","r","e","n","t">>
    @@ "ContainerName" :> <<"c","o","n","t","a","i","n","e","r","_","n","a","m","e">>
    @@ "DependsOn" :> <<"d","e","p","e","n","d","s","_","o","n">>
    @@ "DnsSearch" :> <<"d","n","s","_","s","e","a","r","c","h">>
    @@ "DomainName" :> <<"d","o","m","a","i","n","n","a","m","e">>
    @@ "EnvFile" :> <<"e","n","v","_","f","i","l","e">>
    @@ "ExternalLinks" :> <<"e","x","t","e","r","n","a","l","_","l","i","n","k","s">>
    @@ "ExtraHosts" :> <<"e","x","t","r","a","_","h","o","s","t","s">>
    @@ "MacAddress" :> <<"m","a","c","_","a","d","d","r","e","s","s">>
    @@ "MemLimit" :> <<"m","e","m","_","l","i","m","i","t">>
    @@ "MemswapLimit" :> <<"m","e","m","s","w","a","p","_","l","i","m","i","t">>
    @@ "NetworkMode" :> <<"n","e","t","w","o","r","k","_","m","o","d","e">>
    @@ "ReadOnly" :> <<"r","e","a","d","_","o","n","l","y">>
    @@ "SecurityOpt" :> <<"s","e","c","u","r","i","t","y","_","o","p","t">>
    @@ "ShmSize" :> <<"s","h","m","_","s","i","z","e">>
    @@ "StdinOpen" :> <<"s","t","d","i","n","_","o","p","e","n">>
    @@ "StopGracePeriod" :> <<"s","t","o","p","_","g","r","a","c","e","_","p","e","r","i","o","d">>
    @@ "StopSignal" :> <<"s","t","o","p","_","s","i","g","n","a","l">>
    @@ "VolumeDriver" :> <<"v","o","l","u","m","e","_","d","r","i","v","e","r">>
    @@ "WorkingDir" :> <<"w","o","r","k","i","n","g","_","d","i","r">>

S_example_com == <<"e","x","a","m","p","l","e",".","c","o","m">>

\* the fields of ServiceConfig that loadStruct sets with SetString
StringFields ==
    {i \in 1..Len(ServiceConfigFields) :
        ServiceConfigFields[i].tag = "" /\ ServiceConfigFields[i].kind = "string"}

\* a service mapping with one string entry, under the key a string field is declared with or
\* under the key derived from its name
StringEntryArgs ==
    {VDict(key :> VStr(S_example_com)) :
        key \in {toYAMLName(ServiceConfigFields[i].chars) : i \in StringFields}
                \cup {MapstructureTags[ServiceConfigFields[i].name] :
                        i \in {j \in StringFields : ServiceConfigFields[j].name \in DOMAIN MapstructureTags}}}


S_aliases == <<"a","l","i","a","s","e","s">>
S_ipv4_address == <<"i","p","v","4","_","a","d","d","r","e","s","s">>
S_alias1 == <<"a","l","i","a","s","1">>
S_address == <<"1","7","2",".","1","6",".","2","3","8",".","1","0">>
S_some_network == <<"s","o","m","e","-","n","e","t","w","o","r","k">>
S_other_network == <<"o","t","h","e","r","-","n","e","t","w","o","r","k">>

\* the value under one network name of a service: null, a mapping of ServiceNetworkConfig
\* entries, and a value that is no mapping
ServiceNetworkItems ==
    {VNull,
     VDict(S_aliases :> VList(<<VStr(S_alias1)>>)),
     VDict(S_ipv4_address :> VStr(S_address)),
     VStr(S_alias1)}

\* the networks entry of a service: a list of names, a mapping by name, and other shapes
ServiceNetworksArgs ==
    {VList(names) : names \in UNION {[1..n -> {VStr(S_some_network), VStr(S_other_network)}] :
                                       n \in 0..MaxItems}}
    \cup {VDict(m) : m \in UNION {[names -> ServiceNetworkItems] :
                                    names \in SUBSET {S_some_network, S_other_network}}}
    \cup {VList(<<VInt(1)>>), VStr(S_some_network)}


S_hostname == <<"h","o","s","t","n","a","m","e">>
S_unknown == <<"u","n","k","n","o","w","n">>

\* a service mapping with entries for some fields and an entry that is no field's key; the
\* values are strings and a value SetString does not take
StructArgs ==
    {VDict(m) : m \in UNION {[keys -> {VStr(S_busybox), VInt(1)}] :
                               keys \in SUBSET {S_image, S_hostname, S_unknown}}}


S_3000 == <<"3","0","0","0">>

\* the items of a ports or expose list: a string, numbers, and values that are neither
PortItems == {VStr(S_3000), VInt(8000), VFloat(25), VBool(TRUE), VNull, VList(<<VInt(1)>>),
              VDict(S_a :> VInt(1))}

\* the value of a list_of_strings_or_numbers field: lists of such items, and a string
PortArgs ==
    {VList(items) : items \in UNION {[1..n -> PortItems] : n \in 0..MaxItems}}
    \cup {VStr(S_3000)}


S_subnet == <<"s","u","b","n","e","t">>
S_subnet_v4 == <<"1","7","2",".","1","6",".","2","3","8",".","0","/","2","4">>
S_subnet_v6 == <<"2","0","0","1",":","3","9","8","4",":","3","9","8","9",":",":","/","6","4">>

\* the items of ipam.config: mappings with a subnet, without one, and with one SetString
\* does not take
PoolItems ==
    {VDict(S_subnet :> VStr(S_subnet_v4)), VDict(S_subnet :> VStr(S_subnet_v6)),
     VDict(EmptyMap), VDict(S_subnet :> VInt(1))}

PoolArgs == {VList(items) : items \in UNION {[1..n -> PoolItems] : n \in 0..MaxItems}}


S_other == <<"o","t","h","e","r">>

\* the mapping of one service: without a name entry, with one, and with one that is no string
ServiceDicts ==
    {VDict(m) : m \in UNION {[keys -> {VStr(S_other), VInt(1)}] :
                               keys \in SUBSET {S_name, S_image, S_hostname}}}


\* the types loadStruct is given a destination of: the three entities and the records
\* reached from their fields
LoadedTypes ==
    {"ServiceConfig", "DeployConfig", "Placement", "ServiceNetworkConfig",
     "NetworkConfig", "IPAMConfig", "IPAMPool", "VolumeConfig", "External"}

\* a document value of every kind, under the key of a field
FieldValues == {VStr(S_busybox), VInt(1), VBool(TRUE), VNull, VList(<<>>), VDict(EmptyMap)}

HelperCalls ==
    {Call("loadStringOrListOfStrings", arg, None) : arg \in StringOrListArgs}
    \cup {Call("loadUlimits", arg, None) : arg \in UlimitArgs}
    \cup {Call("loadExternalName", value, name) : value \in ExternalValues, name \in {S_default, S_data}}
    \cup {Call("resolveVolumePaths", GoSlice(volumes), [workingDir |-> dir, home |-> home]) :
            volumes \in VolumeLists, dir \in WorkingDirs, home \in Homes}
    \cup {Call("loadStruct", arg, "ServiceConfig") : arg \in StringEntryArgs}
    \cup {Call("loadListOrStructMap", arg, "ServiceNetworkConfig") : arg \in ServiceNetworksArgs}
    \cup {Call("loadStruct", arg, "ServiceConfig") : arg \in StructArgs}
    \cup {Call("loadListOfStringsOrNumbers", arg, None) : arg \in PortArgs}
    \cup {Call("loadListOfStructs", arg, "IPAMPool") : arg \in PoolArgs}
    \cup {Call("loadService", serviceDict, name) : serviceDict \in ServiceDicts, name \in {S_foo, S_bar}}
    \cup UNION {{Call("loadField", value, [type |-> type, index |-> i]) :
                    value \in FieldValues, i \in 1..Len(Fields(type))} : type \in LoadedTypes}

InitCalls ==
    /\ source = VNull
    /\ nfiles = 0
    /\ schemaValid = TRUE
    /\ pc = "helper"
    /\ configFile = None
    /\ cfg = None
    /\ ret = None
    /\ trace = <<>>
    /\ helperSep = None
    /\ helperOut = None
    /\ \E call \in HelperCalls :
          /\ helperFn = call.fn
          /\ helperArg = call.arg
          /\ helperWith = call.with

\* a helper is entered once and gives its result
Called(out) ==
    /\ pc = "helper"
    /\ helperOut = None
    /\ helperOut' = out
    /\ UNCHANGED <<loadVars, helperArg, helperSep, helperFn, helperWith>>

\* loadStruct's call for a string_or_list field
callStringOrListOfStrings ==
    /\ helperFn = "loadStringOrListOfStrings"
    /\ Called(loadStringOrListOfStrings(helperArg))

\* loadService's call for the ulimits entry; the limits are met in map order
callUlimits ==
    /\ helperFn = "loadUlimits"
    /\ \E out \in loadUlimits(helperArg) : Called(out)

\* loadNetwork's and loadVolume's call for the external entry
callExternalName ==
    /\ helperFn = "loadExternalName"
    /\ Called(loadExternalName(helperWith, helperArg))


\* loadService's call for the volumes of the service
callResolveVolumePaths ==
    /\ helperFn = "resolveVolumePaths"
    /\ Called(Ok(GoSlice(resolveVolumePaths(helperArg.items, helperWith.workingDir, helperWith.home))))


\* loadService's call for the mapping of a service
callLoadStruct ==
    /\ helperFn = "loadStruct"
    /\ \E out \in loadStruct(helperArg, helperWith) : Called(out)


\* loadStruct's call for a list_or_struct_map field; the entries of a mapping are met in map
\* order
callListOrStructMap ==
    /\ helperFn = "loadListOrStructMap"
    /\ \E out \in loadListOrStructMap(helperArg, helperWith) : Called(out)


\* loadStruct's call for a list_of_strings_or_numbers field
callListOfStringsOrNumbers ==
    /\ helperFn = "loadListOfStringsOrNumbers"
    /\ Called(loadListOfStringsOrNumbers(helperArg))


\* loadStruct's call for a field that is a slice of struct pointers
callListOfStructs ==
    /\ helperFn = "loadListOfStructs"
    /\ \E out \in loadListOfStructs(helperArg, helperWith) : Called(out)


\* loadServices' call for one entry of the services mapping
callLoadService ==
    /\ helperFn = "loadService"
    /\ \E out \in loadService(helperWith, helperArg) : Called(out)


\* one pass of the loop of loadStruct, for a field whose key is in the mapping
callLoadField ==
    /\ helperFn = "loadField"
    /\ \E out \in loadField(Fields(helperWith.type)[helperWith.index], helperArg) : Called(out)

NextCalls ==
    \/ callStringOrListOfStrings
    \/ callUlimits
    \/ callExternalName
    \/ callResolveVolumePaths
    \/ callLoadStruct
    \/ callListOrStructMap
    \/ callListOfStringsOrNumbers
    \/ callListOfStructs
    \/ callLoadService
    \/ callLoadField

SpecCalls == InitCalls /\ [][NextCalls]_vars

-----------------------------------------------------------------------------
(* Properties *)

InTrace(stage) == \E i \in 1..Len(trace) : trace[i] = stage

\* some service, network or volume section has been handed to its decoder
Decoded == InTrace("Services") \/ InTrace("Networks") \/ InTrace("Volumes")

\* Load has been entered with exactly one file and has ended
LoadEnded == pc = "done" /\ InTrace("files") /\ nfiles = 1

\* C1: Load given zero files, or more than one, returns an error and no Config; validation
\* and decoding are reached only with exactly one file.
C1_FileCount ==
    /\ (InTrace("files") /\ nfiles # 1) =>
          /\ ret.t = "return"
          /\ ret.config = Nil
          /\ ret.err \in {Err("NoFiles", <<>>), Err("MultipleFiles", <<>>)}
          /\ trace = <<"files">>
    /\ (InTrace("validate") \/ Decoded) => nfiles = 1

C1_Witness ==
    /\ nfiles > 1
    /\ ret = Returned(Nil, Err("MultipleFiles", <<>>))

RECURSIVE PathOf(_)
\* the path of a node reached by the given steps from the root: the first key bare, then
\* .<key> for a mapping entry and [<index>] for a sequence element
PathOf(steps) ==
    IF steps = <<>> THEN <<>>
    ELSE LET front == SubSeq(steps, 1, Len(steps) - 1)
             last == steps[Len(steps)]
         IN IF last.t = "index" THEN PathOf(front) \o <<"[">> \o Itoa(last.index) \o <<"]">>
            ELSE IF front = <<>> THEN last.key
            ELSE PathOf(front) \o <<".">> \o last.key

LocationOf(steps) == IF steps = <<>> THEN S_at_top_level ELSE S_in_ \o PathOf(steps)

RECURSIVE NonStringKeyLocations(_, _)
\* the locations of the mappings of a raw document that hold a non-string key
NonStringKeyLocations(value, steps) ==
    IF value.t = "rawmap" THEN
        (IF \E key \in DOMAIN value.m : key.t # "string" THEN {LocationOf(steps)} ELSE {})
        \cup UNION {NonStringKeyLocations(value.m[key], Append(steps, [t |-> "key", key |-> key.s])) :
                      key \in {k \in DOMAIN value.m : k.t = "string"}}
    ELSE IF value.t = "list" THEN
        UNION {NonStringKeyLocations(value.items[i], Append(steps, [t |-> "index", index |-> i - 1])) :
                 i \in 1..Len(value.items)}
    ELSE {}

\* C2: a raw document in which some mapping has a non-string key fails to normalize, and the
\* error names the location of a mapping that really holds a non-string key ("at top level"
\* for the root, the dotted and bracketed path otherwise).
C2_NonStringKeyPath ==
    (pc \notin {"loadYAML", "helper"} /\ source.t = "rawmap"
        /\ NonStringKeyLocations(source, <<>>) # {}) =>
          /\ ret.t = "return"
          /\ ret.config = Nil
          /\ ret.err.t = "err"
          /\ ret.err.kind = "NonStringKey"
          /\ ret.err.detail.location \in NonStringKeyLocations(source, <<>>)

RECURSIVE HasNonStringKey(_)
\* some mapping of the tree, at any depth, has a key that is not a string
HasNonStringKey(value) ==
    CASE value.t = "rawmap" ->
            \/ \E key \in DOMAIN value.m : key.t # "string"
            \/ \E key \in DOMAIN value.m : HasNonStringKey(value.m[key])
      [] value.t = "dict" -> \E key \in DOMAIN value.m : HasNonStringKey(value.m[key])
      [] value.t = "list" -> \E i \in 1..Len(value.items) : HasNonStringKey(value.items[i])
      [] OTHER -> FALSE

\* C3: when normalization succeeds, no mapping of the returned tree has a non-string key.
C3_NormalizedStringKeys ==
    configFile # None => ~HasNonStringKey(configFile)

C3_Witness ==
    /\ configFile # None
    /\ S_networks \in DOMAIN configFile.m
    /\ configFile.m[S_networks] =
          VDict(S_default :> VDict(S_ipam :> VDict(S_config :> VList(<<VDict(S_driver :> VStr(S_bridge))>>))))

\* C4: ParseYAML on a top-level value that is not a mapping fails with "Top-level object must
\* be a mapping" and gives no ConfigFile.
C4_TopLevelMapping ==
    (pc \notin {"loadYAML", "helper"} /\ source.t \notin {"rawmap", "yamlerror"}) =>
          /\ ret = Returned(Nil, Err("NotAMapping", <<>>))
          /\ configFile = None

C4_Witness ==
    /\ source = VList(<<VStr(S_hello)>>)
    /\ ret.t = "return"
    /\ ret.err = Err("NotAMapping", <<>>)

\* the version entry of the normalized document is a string other than the supported one
OtherVersionString ==
    /\ configFile # None
    /\ S_version \in DOMAIN configFile.m
    /\ configFile.m[S_version].t = "string"
    /\ configFile.m[S_version].s # S_2_1

\* Load has got past the version check
PastVersionGate ==
    \/ pc \in {"services", "networks", "volumes", "return"}
    \/ Decoded
    \/ (ret.t = "return" /\ ret.err = Nil)

\* C5 as stated: Load gets past the version gate only for the string "2.1", and any other
\* version string makes Load return the UnsupportedVersion error and decode nothing.
C5_UnsupportedVersionAlways ==
    /\ PastVersionGate => configFile.m[S_version] = VStr(S_2_1)
    /\ (LoadEnded /\ OtherVersionString) =>
          /\ ret.t = "return"
          /\ ret.config = Nil
          /\ ret.err.t = "err"
          /\ ret.err.kind = "UnsupportedVersion"
          /\ ~Decoded

\* C5 amended: Load gets past the version gate only for the string "2.1"; any other version
\* string makes Load return an error and decode nothing, the error being UnsupportedVersion
\* when the schema validator accepted the document and the validator's error when it did not.
C5_VersionGate ==
    /\ PastVersionGate => configFile.m[S_version] = VStr(S_2_1)
    /\ (LoadEnded /\ OtherVersionString) =>
          /\ ret.t = "return"
          /\ ret.config = Nil
          /\ ret.err.t = "err"
          /\ ret.err.kind = (IF schemaValid THEN "UnsupportedVersion" ELSE "SchemaValidationError")
          /\ ~Decoded

C5_Witness ==
    /\ LoadEnded
    /\ S_services \in DOMAIN configFile.m
    /\ ret = Returned(Nil, Err("UnsupportedVersion", S_2_0))

\* C6: when the version entry is absent or is not a string, Load returns an error value: it
\* decodes nothing, returns no Config and does not abort.
C6_VersionTypeError ==
    (LoadEnded /\ (S_version \notin DOMAIN configFile.m \/ configFile.m[S_version].t # "string")) =>
          /\ ret.t = "return"
          /\ ret.config = Nil
          /\ ret.err # Nil
          /\ ~Decoded

\* C7: the schema validator runs before any section is decoded, and when it reports a
\* failure Load returns that failure alone and decodes nothing.
C7_ValidateBeforeDecode ==
    /\ \A i \in 1..Len(trace) :
          trace[i] \in {"Services", "Networks", "Volumes"} =>
             \E j \in 1..(i - 1) : trace[j] = "validate"
    /\ (LoadEnded /\ ~schemaValid) =>
          /\ ret = Returned(Nil, Err("SchemaValidationError", <<>>))
          /\ ~Decoded
          /\ cfg = EmptyConfig

C7_Witness ==
    /\ LoadEnded
    /\ ~schemaValid
    /\ S_services \in DOMAIN configFile.m
    /\ ret = Returned(Nil, Err("SchemaValidationError", <<>>))

\* what the three sections give, in the order Load takes them
SectionOutcomes ==
    <<LoadSection(configFile, S_services, loadServices(configFile.m[S_services])),
      LoadSection(configFile, S_networks, loadNetworks(configFile.m[S_networks])),
      LoadSection(configFile, S_volumes, loadVolumes(configFile.m[S_volumes]))>>

SectionKeys == <<S_services, S_networks, S_volumes>>
SectionFields == <<"Services", "Networks", "Volumes">>

\* the first section that fails, 0 when none does
FirstFailing ==
    IF Failures(SectionOutcomes[1]) # {} THEN 1
    ELSE IF Failures(SectionOutcomes[2]) # {} THEN 2
    ELSE IF Failures(SectionOutcomes[3]) # {} THEN 3
    ELSE 0

\* the fields of a record whose key is present and whose coercion fails
FailingFields(dict, type) ==
    {i \in 1..Len(Fields(type)) :
        /\ YAMLNames(type)[i] \in DOMAIN dict.m
        /\ Failures(loadField(Fields(type)[i], dict.m[YAMLNames(type)[i]])) # {}}

\* the failures of the first failing field of a record
FirstFieldFailures(dict, type) ==
    LET first == CHOOSE i \in FailingFields(dict, type) :
                    \A j \in FailingFields(dict, type) : i <= j
    IN Failures(loadField(Fields(type)[first], dict.m[YAMLNames(type)[first]]))

\* the services section is a mapping of mappings and some service has a failing field
SomeServiceFails ==
    /\ S_services \in DOMAIN configFile.m
    /\ configFile.m[S_services].t = "dict"
    /\ \A name \in DOMAIN configFile.m[S_services].m : configFile.m[S_services].m[name].t = "dict"
    /\ \E name \in DOMAIN configFile.m[S_services].m :
          FailingFields(configFile.m[S_services].m[name], "ServiceConfig") # {}

SeparatorAt(str, separator) ==
    {i \in 1..Len(str) : i + Len(separator) - 1 <= Len(str)
                         /\ SubSeq(str, i, i + Len(separator) - 1) = separator}

FirstSeparator(str, separator) ==
    CHOOSE i \in SeparatorAt(str, separator) : \A j \in SeparatorAt(str, separator) : i <= j

\* the part of a list item before its first separator, the whole item when it has none
KeyOf(str, separator) ==
    IF SeparatorAt(str, separator) = {} THEN str
    ELSE SubSeq(str, 1, FirstSeparator(str, separator) - 1)

\* the part of a list item after its first separator, "" when it has none
ValueOf(str, separator) ==
    IF SeparatorAt(str, separator) = {} THEN <<>>
    ELSE SubSeq(str, FirstSeparator(str, separator) + Len(separator), Len(str))

\* the printed form of a scalar, "" for null
Printed(value) ==
    CASE value.t = "null" -> <<>>
      [] value.t = "string" -> value.s
      [] value.t = "int" -> Itoa(value.n)
      [] value.t = "float" -> Ftoa(value.f)
      [] value.t = "bool" -> IF value.b THEN <<"t","r","u","e">> ELSE <<"f","a","l","s","e">>

Scalar(value) == value.t \in {"null", "string", "int", "float", "bool"}

ListOfStrings(value) ==
    value.t = "list" /\ \A i \in 1..Len(value.items) : value.items[i].t = "string"

MappingOfScalars(value) ==
    value.t = "dict" /\ \A name \in DOMAIN value.m : Scalar(value.m[name])

\* C9: loadMappingOrList turns a list of strings into a map by splitting every item at its
\* first separator only, an item without separator getting the value ""; and turns a mapping
\* into a map with the same keys, null becoming "" and a scalar its printed form.
C9_MappingOrList ==
    helperOut # None =>
      /\ ListOfStrings(helperArg) =>
            /\ helperOut.t = "ok"
            /\ helperOut.v.t = "map"
            /\ DOMAIN helperOut.v.m =
                  {KeyOf(helperArg.items[i].s, helperSep) : i \in 1..Len(helperArg.items)}
            /\ \A name \in DOMAIN helperOut.v.m :
                  \E i \in 1..Len(helperArg.items) :
                     /\ KeyOf(helperArg.items[i].s, helperSep) = name
                     /\ ValueOf(helperArg.items[i].s, helperSep) = helperOut.v.m[name]
            /\ \A i \in 1..Len(helperArg.items) :
                  (\A j \in 1..Len(helperArg.items) :
                      KeyOf(helperArg.items[j].s, helperSep) = KeyOf(helperArg.items[i].s, helperSep)
                         => j = i)
                  => helperOut.v.m[KeyOf(helperArg.items[i].s, helperSep)]
                        = ValueOf(helperArg.items[i].s, helperSep)
      /\ MappingOfScalars(helperArg) =>
            /\ helperOut.t = "ok"
            /\ helperOut.v.t = "map"
            /\ DOMAIN helperOut.v.m = DOMAIN helperArg.m
            /\ \A name \in DOMAIN helperArg.m :
                  /\ helperOut.v.m[name] = Printed(helperArg.m[name])
                  /\ helperArg.m[name] = VInt(1) => helperOut.v.m[name] = <<"1">>
                  /\ helperArg.m[name] = VFloat(25) => helperOut.v.m[name] = <<"2", ".", "5">>
                  /\ helperArg.m[name] = VNull => helperOut.v.m[name] = <<>>

C9_Witness ==
    /\ helperArg = VList(<<VStr(S_A_eq_b_eq_c), VStr(S_QUUX)>>)
    /\ helperSep = <<"=">>
    /\ helperOut = Ok(GoMap(S_A :> <<"b", "=", "c">> @@ S_QUUX :> <<>>))

\* C10: loadMappingOrList returns a TypeMismatch error, and no map, for a list with a
\* non-string item, for a mapping with a value that is a list or a mapping, and for a value
\* other than null that is neither a mapping nor a list.
C10_TypeMismatchReturned ==
    (helperOut # None /\ helperArg # VNull
        /\ ~ListOfStrings(helperArg) /\ ~MappingOfScalars(helperArg)) =>
          /\ helperOut.t = "err"
          /\ helperOut.kind = "TypeMismatch"

\* C11: loadStringOrListOfStrings gives the one-element list [s] for a string s, and for a
\* list of strings the same strings in the same order and number.
C11_StringOrStringList ==
    (helperFn = "loadStringOrListOfStrings" /\ helperOut # None) =>
      /\ helperArg.t = "string" => helperOut = Ok(GoSlice(<<helperArg.s>>))
      /\ ListOfStrings(helperArg) =>
            /\ helperOut.t = "ok"
            /\ helperOut.v.t = "slice"
            /\ Len(helperOut.v.items) = Len(helperArg.items)
            /\ \A i \in 1..Len(helperArg.items) : helperOut.v.items[i] = helperArg.items[i].s

C11_Witness ==
    /\ helperFn = "loadStringOrListOfStrings"
    /\ helperArg = VList(<<VStr(S_b), VStr(S_a)>>)
    /\ helperOut = Ok(GoSlice(<<S_b, S_a>>))

\* the place of the Image field in the field table of a service
ImageField == CHOOSE i \in 1..Len(Fields("ServiceConfig")) : Fields("ServiceConfig")[i].name = "Image"

\* the image entry of a service is present and is not a string
ImageNotString(serviceDict) ==
    S_image \in DOMAIN serviceDict.m /\ serviceDict.m[S_image].t # "string"

\* services is a mapping of mappings, some service has an image that is no string, and no
\* other field of any service fails
OnlyImagesFail ==
    /\ S_services \in DOMAIN configFile.m
    /\ configFile.m[S_services].t = "dict"
    /\ \A name \in DOMAIN configFile.m[S_services].m :
          /\ configFile.m[S_services].m[name].t = "dict"
          /\ FailingFields(configFile.m[S_services].m[name], "ServiceConfig") =
                IF ImageNotString(configFile.m[S_services].m[name]) THEN {ImageField} ELSE {}
    /\ \E name \in DOMAIN configFile.m[S_services].m :
          ImageNotString(configFile.m[S_services].m[name])

\* C12: when the image of a service is not a string, decoding the services ends with a
\* returned TypeMismatch error and no Config.
C12_NonStringImage ==
    (LoadEnded /\ InTrace("Services") /\ OnlyImagesFail) =>
          /\ ret.t = "return"
          /\ ret.config = Nil
          /\ ret.err.t = "err"
          /\ ret.err.kind = "TypeMismatch"

\* what decoding one entry of a section gives
EntityOutcomes(k, name, entry) ==
    CASE k = 1 -> loadService(name, entry)
      [] k = 2 -> loadNetwork(name, entry)
      [] k = 3 -> loadVolume(name, entry)

\* section k is present and is no mapping, or has an entry that is neither null nor a mapping
NotAMappingIn(k) ==
    /\ SectionKeys[k] \in DOMAIN configFile.m
    /\ \/ configFile.m[SectionKeys[k]].t # "dict"
       \/ \E name \in DOMAIN configFile.m[SectionKeys[k]].m :
             configFile.m[SectionKeys[k]].m[name].t \notin {"dict", "null"}

\* the entries of section k that are mappings all decode
MappingsDecode(k) ==
    configFile.m[SectionKeys[k]].t = "dict" =>
       \A name \in DOMAIN configFile.m[SectionKeys[k]].m :
          configFile.m[SectionKeys[k]].m[name].t = "dict" =>
             Failures(EntityOutcomes(k, name, configFile.m[SectionKeys[k]].m[name])) = {}

\* C13: when services, networks or volumes is not a mapping, or an entry under one of them
\* is a non-null value that is not a mapping, and nothing else fails before it, Load returns
\* a "must be a mapping" error and no Config.
C13_NonMappingSection ==
    (LoadEnded /\ schemaValid /\ LoadVersion(configFile) = Nil
        /\ \E k \in 1..3 : /\ NotAMappingIn(k)
                            /\ MappingsDecode(k)
                            /\ \A j \in 1..(k - 1) : Failures(SectionOutcomes[j]) = {}) =>
          /\ ret.t = "return"
          /\ ret.config = Nil
          /\ ret.err.t = "err"
          /\ ret.err.kind = "NotAMapping"

\* a limit is a bare integer, or a mapping with integer soft and hard entries
WellFormedLimit(item) ==
    \/ item.t = "int"
    \/ /\ item.t = "dict"
       /\ S_soft \in DOMAIN item.m /\ item.m[S_soft].t = "int"
       /\ S_hard \in DOMAIN item.m /\ item.m[S_hard].t = "int"

\* Single(value) for a bare integer, SoftHard(soft, hard) for a mapping
LimitOf(item) ==
    IF item.t = "int" THEN Ulimit(item.n, 0, 0)
    ELSE Ulimit(0, item.m[S_soft].n, item.m[S_hard].n)

\* C14: loadUlimits gives, for every name, Single(value) for a bare integer and
\* SoftHard(soft, hard) for a mapping with integer soft and hard; for any other shape it
\* gives a type error, neither an abort nor a record.
C14_Ulimits ==
    (helperFn = "loadUlimits" /\ helperOut # None /\ helperArg.t = "dict") =>
       IF \A name \in DOMAIN helperArg.m : WellFormedLimit(helperArg.m[name])
       THEN helperOut = Ok(GoMap([name \in DOMAIN helperArg.m |-> LimitOf(helperArg.m[name])]))
       ELSE helperOut.t = "err" /\ helperOut.kind = "TypeMismatch"

\* C15: for a resource declared under name n, external = true gives the external name n,
\* external = false the empty name, a mapping with a string name that name, and any other
\* shape a type error returned as an error value.
C15_ExternalName ==
    (helperFn = "loadExternalName" /\ helperOut # None) =>
       CASE helperArg = VBool(TRUE) -> helperOut = Ok(VStr(helperWith))
         [] helperArg = VBool(FALSE) -> helperOut = Ok(VStr(S_empty))
         [] /\ helperArg.t = "dict"
            /\ S_name \in DOMAIN helperArg.m
            /\ helperArg.m[S_name].t = "string" -> helperOut = Ok(helperArg.m[S_name])
         [] OTHER -> helperOut.t = "err" /\ helperOut.kind = "TypeMismatch"

\* a collection without entries: the nil map a Config starts with, or a map with no key
EmptyCollection(collection) ==
    collection = Nil \/ (collection.t = "map" /\ DOMAIN collection.m = {})

\* what C16 says of one of the two name-keyed sections of a returned Config
NameKeyed(key, field, type) ==
    IF key \notin DOMAIN configFile.m
    THEN EmptyCollection(ret.config[field]) /\ ~InTrace(field)
    ELSE /\ ret.config[field].t = "map"
         /\ DOMAIN ret.config[field].m = DOMAIN configFile.m[key].m
         /\ \A name \in DOMAIN configFile.m[key].m :
               configFile.m[key].m[name] = VNull => ret.config[field].m[name] = ZeroStruct(type)

\* C16: in a Config that Load returns, an absent networks or volumes key has given an empty
\* collection without being decoded, and a present one a map with exactly the keys of the
\* document mapping, a null entry holding the zero-valued NetworkConfig or VolumeConfig; an
\* absent key is never the reason for an error.
C16_AbsentAndNull ==
    /\ (ret.t = "return" /\ ret.config # Nil) =>
          /\ NameKeyed(S_networks, "Networks", "NetworkConfig")
          /\ NameKeyed(S_volumes, "Volumes", "VolumeConfig")
    /\ (pc = "done" /\ ret.t = "return" /\ ret.err # Nil /\ configFile # None) =>
          /\ S_networks \notin DOMAIN configFile.m => ~InTrace("Networks")
          /\ S_volumes \notin DOMAIN configFile.m => ~InTrace("Volumes")

C16_Witness ==
    /\ ret.t = "return"
    /\ ret.config # Nil
    /\ S_networks \notin DOMAIN configFile.m
    /\ ret.config.Networks = Nil
    /\ S_volumes \in DOMAIN configFile.m
    /\ DOMAIN ret.config.Volumes.m = {S_data, S_hello}
    /\ ret.config.Volumes.m[S_data] = ZeroStruct("VolumeConfig")
    /\ ret.config.Volumes.m[S_hello] # ZeroStruct("VolumeConfig")

(* C17: volume paths *)

SourceOf(mapping) == KeyOf(mapping, S_colon)
TargetOf(mapping) == ValueOf(mapping, S_colon)
HasSource(mapping) == SeparatorAt(mapping, S_colon) # {}
ResolvedCall == helperFn = "resolveVolumePaths" /\ helperOut # None

\* the three cases read as exclusive: a source under "." is only joined, a source under "~"
\* is only expanded
ExclusiveCases(mapping, workingDir, home) ==
    LET src == SourceOf(mapping)
    IN IF HasPrefix(src, S_dot)
       THEN PathJoin(<<workingDir, src>>) \o S_colon \o TargetOf(mapping)
       ELSE IF HasPrefix(src, S_tilde)
       THEN home \o Tail(src) \o S_colon \o TargetOf(mapping)
       ELSE mapping

\* C17: the source of each volume entry is joined against the working directory if it starts
\* with ".", has its "~" replaced by the home directory if it starts with "~", and the entry
\* is unchanged otherwise.
C17_VolumePaths ==
    ResolvedCall =>
        /\ helperOut.t = "ok"
        /\ Len(helperOut.v.items) = Len(helperArg.items)
        /\ \A i \in 1..Len(helperArg.items) :
              HasSource(helperArg.items[i]) =>
                 helperOut.v.items[i]
                    = ExclusiveCases(helperArg.items[i], helperWith.workingDir, helperWith.home)

\* the source after the join, and after the expansion that follows it
JoinedThenExpanded(mapping, workingDir, home) ==
    LET src == SourceOf(mapping)
        joined == IF HasPrefix(src, S_dot) THEN PathJoin(<<workingDir, src>>) ELSE src
    IN (IF HasPrefix(joined, S_tilde) THEN home \o Tail(joined) ELSE joined)
       \o S_colon \o TargetOf(mapping)

\* what the call makes of the entry mapping under this working directory and home
Resolves(mapping, workingDir, home, resolved) ==
    (helperWith.workingDir = workingDir /\ helperWith.home = home) =>
        \A i \in 1..Len(helperArg.items) :
            helperArg.items[i] = mapping => helperOut.v.items[i] = resolved

\* C17 (amended): an entry with no ":" is left as it is; in an entry source:rest, cut at the
\* first ":", a source that starts with "." is replaced by its cleaned join with the working
\* directory, and then a path that starts with "~", joined or not, has that "~" replaced
\* by the home directory; every other entry is unchanged.
C17_JoinedThenExpanded ==
    ResolvedCall =>
        /\ helperOut.t = "ok"
        /\ Len(helperOut.v.items) = Len(helperArg.items)
        /\ \A i \in 1..Len(helperArg.items) :
              helperOut.v.items[i]
                 = IF HasSource(helperArg.items[i])
                   THEN JoinedThenExpanded(helperArg.items[i], helperWith.workingDir, helperWith.home)
                   ELSE helperArg.items[i]
        /\ Resolves(S_dot_data, S_work, S_home_u, <<"/","w","o","r","k","/","d","a","t","a",":","/","d","a","t","a">>)
        /\ Resolves(S_up, S_work, S_home_u, <<"/","u","p",":","/","u","p",":","r","o">>)
        /\ Resolves(S_here, S_dot, S_home_u, <<".",":","/","s","r","c">>)
        /\ Resolves(S_dot_data, S_dot, S_home_u, <<"d","a","t","a",":","/","d","a","t","a">>)
        /\ Resolves(S_tilde_cfg, S_work, S_home_u, <<"/","h","o","m","e","/","u","/","c","f","g",":","/","c","f","g">>)
        /\ Resolves(S_dot_data, S_tilde_app, S_home_u,
                    <<"/","h","o","m","e","/","u","/","a","p","p","/","d","a","t","a",":","/","d","a","t","a">>)
        /\ Resolves(S_abs, S_work, S_home_u, S_abs)
        /\ Resolves(S_named, S_work, S_home_u, S_named)

C17_Witness ==
    /\ ResolvedCall
    /\ helperWith = [workingDir |-> S_tilde_app, home |-> S_home_u]
    /\ helperArg.items = <<S_dot_data, S_dot_cache>>
    /\ helperOut.v.items =
          <<<<"/","h","o","m","e","/","u","/","a","p","p","/","d","a","t","a",":","/","d","a","t","a">>,
            S_dot_cache>>

(* C18: decoding twice *)

\* the Configs that another Load of the same file may return
SecondDecodes ==
    {[services |-> services, networks |-> networks, volumes |-> volumes] :
        services \in SectionOutcomes[1], networks \in SectionOutcomes[2],
        volumes \in SectionOutcomes[3]}

ConfigReturned == pc = "done" /\ ret.t = "return" /\ ret.config # Nil

\* C18: another decode of the same document returns a Config equal to the one returned,
\* the services list in the same order.
C18_SameConfigTwice ==
    ConfigReturned =>
        \A second \in SecondDecodes :
            /\ second.services = Ok(ret.config.Services)
            /\ second.networks = Ok(ret.config.Networks)
            /\ second.volumes = Ok(ret.config.Volumes)

\* two services lists that hold the same services, in whatever order
SameServices(one, other) ==
    IF one = Nil \/ other = Nil THEN one = other
    ELSE /\ Len(one.items) = Len(other.items)
         /\ {one.items[i] : i \in 1..Len(one.items)} = {other.items[i] : i \in 1..Len(other.items)}

\* C18 (amended): when Load returns a Config, another decode of the same document returns
\* one too, with equal Networks and Volumes and with the same services in the list, whose
\* order is the order the services mapping was iterated in and may differ.
C18_SameUpToServiceOrder ==
    ConfigReturned =>
        \A second \in SecondDecodes :
            /\ second.services.t = "ok"
            /\ SameServices(second.services.v, ret.config.Services)
            /\ second.networks = Ok(ret.config.Networks)
            /\ second.volumes = Ok(ret.config.Volumes)

C18_Witness ==
    /\ ConfigReturned
    /\ ret.config.Services # Nil
    /\ Len(ret.config.Services.items) = 2
    /\ ret.config.Services.items[1].f.Name = VStr(S_foo)
    /\ \E second \in SecondDecodes :
          /\ second.services.t = "ok"
          /\ second.services.v.items[1].f.Name = VStr(S_bar)

(* C19: document keys *)

\* the key a string field of ServiceConfig is documented to be read from: the declared key
\* where the derived one would be wrong, the name in lower case with "_" between its words
\* otherwise
DocumentKeys ==
    "Name" :> <<"n","a","m","e">>
    @@ "CgroupParent" :> <<"c","g","r","o","u","p","_","p","a","r","e","n","t">>
    @@ "ContainerName" :> <<"c","o","n","t","a","i","n","e","r","_","n","a","m","e">>
    @@ "DomainName" :> <<"d","o","m","a","i","n","n","a","m","e">>
    @@ "Hostname" :> <<"h","o","s","t","n","a","m","e">>
    @@ "Image" :> <<"i","m","a","g","e">>
    @@ "Ipc" :> <<"i","p","c">>
    @@ "MacAddress" :> <<"m","a","c","_","a","d","d","r","e","s","s">>
    @@ "NetworkMode" :> <<"n","e","t","w","o","r","k","_","m","o","d","e">>
    @@ "Pid" :> <<"p","i","d">>
    @@ "Restart" :> <<"r","e","s","t","a","r","t">>
    @@ "StopSignal" :> <<"s","t","o","p","_","s","i","g","n","a","l">>
    @@ "User" :> <<"u","s","e","r">>
    @@ "VolumeDriver" :> <<"v","o","l","u","m","e","_","d","r","i","v","e","r">>
    @@ "WorkingDir" :> <<"w","o","r","k","i","n","g","_","d","i","r">>

\* C19: a string field of ServiceConfig is read from its document key: from the key derived
\* from its name, container_name for ContainerName, and from the declared key domainname for
\* DomainName.
C19_DocumentKeys ==
    (helperFn = "loadStruct" /\ helperOut # None /\ helperArg \in StringEntryArgs) =>
        /\ helperOut.t = "ok"
        /\ \A name \in DOMAIN DocumentKeys :
              helperOut.v.f[name] = IF DocumentKeys[name] \in DOMAIN helperArg.m
                                    THEN helperArg.m[DocumentKeys[name]]
                                    ELSE VStr(S_empty)

(* C20: list or struct map *)

ListOfNames(value) ==
    value.t = "list" /\ \A i \in 1..Len(value.items) : value.items[i].t = "string"

MappingOfRecords(value) ==
    value.t = "dict" /\ \A name \in DOMAIN value.m : value.m[name].t \in {"null", "dict"}

\* C20: loadListOrStructMap makes of a list of bare names a map with an entry for every name
\* listed, each a zero-value record; and of a mapping a map with all of its keys, a zero-value
\* record for a null value and the decoded record for any other.
C20_ListOrStructMap ==
    (helperFn = "loadListOrStructMap" /\ helperOut # None) =>
        /\ ListOfNames(helperArg) =>
              /\ helperOut.t = "ok"
              /\ helperOut.v.t = "map"
              /\ DOMAIN helperOut.v.m = {helperArg.items[i].s : i \in 1..Len(helperArg.items)}
              /\ \A name \in DOMAIN helperOut.v.m : helperOut.v.m[name] = ZeroStruct(helperWith)
        /\ MappingOfRecords(helperArg) =>
              /\ helperOut.t = "ok"
              /\ helperOut.v.t = "map"
              /\ DOMAIN helperOut.v.m = DOMAIN helperArg.m
              /\ \A name \in DOMAIN helperArg.m :
                    IF helperArg.m[name] = VNull
                    THEN helperOut.v.m[name] = ZeroStruct(helperWith)
                    ELSE Ok(helperOut.v.m[name]) \in loadStruct(helperArg.m[name], helperWith)

(* C21: absent and unknown keys *)

\* the keys of the mapping that are the document key of a field of the type
KnownKeys(dict, type) ==
    {key \in DOMAIN dict.m : \E i \in 1..Len(Fields(type)) : YAMLNames(type)[i] = key}

StructLoaded == helperFn = "loadStruct" /\ helperOut # None

\* C21: loadStruct leaves a field whose document key is absent at its zero value, without an
\* error, and gives the same result as for the mapping without the keys that belong to no
\* field.
C21_AbsentAndUnknownKeys ==
    StructLoaded =>
        /\ helperOut.t = "ok" =>
              \A i \in 1..Len(Fields(helperWith)) :
                  YAMLNames(helperWith)[i] \notin DOMAIN helperArg.m =>
                      helperOut.v.f[Fields(helperWith)[i].name] = ZeroValue(Fields(helperWith)[i])
        /\ KnownKeys(helperArg, helperWith) = {} => helperOut = Ok(ZeroStruct(helperWith))
        /\ helperOut \in loadStruct(VDict([key \in KnownKeys(helperArg, helperWith) |->
                                              helperArg.m[key]]), helperWith)

C21_Witness ==
    /\ StructLoaded
    /\ helperArg = VDict(S_image :> VStr(S_busybox) @@ S_unknown :> VInt(1))
    /\ helperOut.t = "ok"
    /\ helperOut.v.f["Image"] = VStr(S_busybox)
    /\ helperOut.v.f["Hostname"] = VStr(S_empty)

(* C22: the order of the stages of Load *)

Sections == {"Services", "Networks", "Volumes"}

\* the place of a stage in the order the claim states
StatedOrder(stage) ==
    CASE stage = "files" -> 1
      [] stage = "version" -> 2
      [] stage = "validate" -> 3
      [] stage \in Sections -> 4

\* the place of a stage in the order of the statements of Load
StatementOrder(stage) ==
    CASE stage = "files" -> 1
      [] stage = "validate" -> 2
      [] stage = "version" -> 3
      [] stage \in Sections -> 4

StageBefore(first, second) ==
    \A j \in 1..Len(trace) : trace[j] = second => \E i \in 1..(j - 1) : trace[i] = first

\* C22: the stages of Load run in the order file count, version gate, schema validator,
\* sections; the validator is never invoked before the version was checked.
C22_StagesAsStated ==
    /\ \A i, j \in 1..Len(trace) : i < j => StatedOrder(trace[i]) <= StatedOrder(trace[j])
    /\ StageBefore("version", "validate")

\* C22 (amended): the stages of Load run in the order file count, schema validator, version
\* gate, sections, each at most once before the sections; the version is never checked
\* before the validator has accepted the document, and no section is decoded before the
\* version was checked.
C22_ValidatorBeforeVersion ==
    /\ \A i, j \in 1..Len(trace) : i < j => StatementOrder(trace[i]) <= StatementOrder(trace[j])
    /\ \A i, j \in 1..Len(trace) : (i < j /\ trace[i] \notin Sections) => trace[i] # trace[j]
    /\ StageBefore("files", "validate")
    /\ StageBefore("validate", "version")
    /\ InTrace("version") => schemaValid
    /\ \A section \in Sections : StageBefore("version", section)

C22_Witness ==
    /\ pc = "done"
    /\ Len(trace) >= 4
    /\ SubSeq(trace, 1, 4) = <<"files", "validate", "version", "Services">>

(* C23: normalization keeps the document *)

RECURSIVE SameDocument(_, _)
\* the normalized value holds what the raw value holds: the elements of a sequence one by
\* one, a scalar itself, the entries of a mapping under the same keys
SameDocument(raw, normalized) ==
    CASE raw.t = "rawmap" ->
            /\ normalized.t = "dict"
            /\ \A key \in DOMAIN raw.m : key.t = "string"
            /\ DOMAIN normalized.m = {key.s : key \in DOMAIN raw.m}
            /\ \A key \in DOMAIN raw.m : SameDocument(raw.m[key], normalized.m[key.s])
      [] raw.t = "list" ->
            /\ normalized.t = "list"
            /\ Len(normalized.items) = Len(raw.items)
            /\ \A i \in 1..Len(raw.items) : SameDocument(raw.items[i], normalized.items[i])
      [] OTHER -> normalized = raw

\* C23: when ParseYAML succeeds, the normalized document has every sequence of the raw one
\* with its length and order, every scalar unchanged and every mapping with the same keys.
C23_NormalizationKeepsAll ==
    configFile # None => SameDocument(source, configFile)

C23_Witness ==
    /\ configFile # None
    /\ S_services \in DOMAIN configFile.m
    /\ configFile.m[S_services].t = "dict"
    /\ S_foo \in DOMAIN configFile.m[S_services].m
    /\ configFile.m[S_services].m[S_foo] = VDict(S_image :> VList(<<VStr(S_busybox), VStr(S_latest)>>))

(* C24: lists of strings or numbers *)

StringOrNumber(item) == item.t \in {"string", "int", "float"}

\* a string as it is, a number in decimal digits
Stringified(item) ==
    CASE item.t = "string" -> item.s
      [] item.t = "int" -> Itoa(item.n)
      [] item.t = "float" -> Ftoa(item.f)

\* C24: loadListOfStringsOrNumbers gives, for a list of strings and numbers, the list of the
\* same length and order with strings kept and numbers stringified, and fails with
\* TypeMismatch when an item is a bool, null, a sequence or a mapping.
C24_StringsOrNumbers ==
    (helperFn = "loadListOfStringsOrNumbers" /\ helperOut # None /\ helperArg.t = "list") =>
        IF \A i \in 1..Len(helperArg.items) : StringOrNumber(helperArg.items[i])
        THEN /\ helperOut.t = "ok"
             /\ Len(helperOut.v.items) = Len(helperArg.items)
             /\ \A i \in 1..Len(helperArg.items) :
                   helperOut.v.items[i] = Stringified(helperArg.items[i])
        ELSE /\ helperOut.t = "err"
             /\ helperOut.kind = "TypeMismatch"

(* C25: lists of structs *)

\* what loadStruct makes of item i of the list
ItemOutcomes(i) == loadStruct(helperArg.items[i], helperWith)

ItemFails(i) == \E out \in ItemOutcomes(i) : out.t # "ok"

StructsLoaded == helperFn = "loadListOfStructs" /\ helperOut # None

\* the part of C25 about lists whose items all decode
ItemsInOrder ==
    (StructsLoaded /\ \A i \in 1..Len(helperArg.items) : ~ItemFails(i)) =>
        /\ helperOut.t = "ok"
        /\ IF helperArg.items = <<>> THEN helperOut.v = Nil
           ELSE /\ Len(helperOut.v.items) = Len(helperArg.items)
                /\ \A i \in 1..Len(helperArg.items) : Ok(helperOut.v.items[i]) \in ItemOutcomes(i)

\* C25: loadListOfStructs gives for a list of n mappings the n records loadStruct decodes
\* from them, in order; when an item fails to decode, it returns that error and assigns
\* nothing.
C25_ListOfStructs ==
    /\ ItemsInOrder
    /\ (StructsLoaded /\ \E i \in 1..Len(helperArg.items) : ItemFails(i)) =>
          helperOut.t = "err"

(* C26: the name of a service *)

\* C26: a ServiceConfig that loadService returns has the key of the service as its Name,
\* whatever name entry the mapping of the service holds.
C26_NameIsKey ==
    (helperFn = "loadService" /\ helperOut # None /\ helperOut.t = "ok") =>
        helperOut.v.f["Name"] = VStr(helperWith)

C26_Witness ==
    /\ helperFn = "loadService"
    /\ helperWith = S_foo
    /\ helperArg = VDict(S_name :> VStr(S_other) @@ S_image :> VStr(S_other))
    /\ helperOut # None
    /\ helperOut.t = "ok"
    /\ helperOut.v.f["Name"] = VStr(S_foo)
    /\ helperOut.v.f["Image"] = VStr(S_other)

(* C27: the branches for unknown policies *)

FieldLoaded == helperFn = "loadField" /\ helperOut # None

\* no field carries a compose tag that loadStruct does not know
TagsRecognised ==
    FieldLoaded => ~(helperOut.t = "panic" /\ helperOut.where = "Unrecognised field tag")

\* C27: for every field of the declared types and every value under its key, loadStruct
\* selects a policy: it reaches neither the "Unrecognised field tag" abort nor the
\* "Can't load" abort.
C27_PoliciesKnown ==
    /\ TagsRecognised
    /\ FieldLoaded => ~(helperOut.t = "panic" /\ helperOut.where = "Can't load")

(* C28: the order of the sections *)

SectionRank(stage) ==
    CASE stage = "Services" -> 1
      [] stage = "Networks" -> 2
      [] stage = "Volumes" -> 3
      [] OTHER -> 0

\* the sections whose decoding was begun, in the order it was begun
IsSection(stage) == stage \in Sections
SectionsBegun == SelectSeq(trace, IsSection)

\* C28: Load decodes services, then networks, then volumes, each at most once and none
\* before an earlier one that the document has; a section is begun after another only when
\* that one was decoded and assigned, so the section that fails is the last one begun.
C28_SectionsInOrder ==
    configFile # None =>
        /\ \A i, j \in 1..Len(SectionsBegun) :
              i < j => SectionRank(SectionsBegun[i]) < SectionRank(SectionsBegun[j])
        /\ \A k \in 1..3 : \A earlier \in 1..(k - 1) :
              (InTrace(SectionFields[k]) /\ SectionKeys[earlier] \in DOMAIN configFile.m)
                 => InTrace(SectionFields[earlier])
        /\ \A i \in 1..(Len(SectionsBegun) - 1) :
              Ok(cfg[SectionsBegun[i]]) \in SectionOutcomes[SectionRank(SectionsBegun[i])]
        /\ (pc = "done" /\ ret.t = "return" /\ ret.err # Nil /\ SectionsBegun # <<>>) =>
              ret.err \in Failures(SectionOutcomes[SectionRank(SectionsBegun[Len(SectionsBegun)])])

C28_Witness ==
    /\ pc = "done"
    /\ configFile # None
    /\ {S_services, S_networks, S_volumes} \subseteq DOMAIN configFile.m
    /\ SectionsBegun = <<"Services">>
    /\ ret.t = "return"
    /\ ret.err # Nil
    /\ ret.err.kind = "CoercionError"

(* C29: what resolveVolumePaths leaves alone *)

\* the last n characters of a string
Suffix(str, n) == SubSeq(str, Len(str) - n + 1, Len(str))

\* C29: resolveVolumePaths keeps the number and order of the entries; an entry with no ":"
\* is unchanged, also when it starts with "." or "~"; of any other entry the first ":" and
\* all that follows it are unchanged.
C29_OnlySourceChanges ==
    ResolvedCall =>
        /\ helperOut.t = "ok"
        /\ Len(helperOut.v.items) = Len(helperArg.items)
        /\ \A i \in 1..Len(helperArg.items) :
              IF HasSource(helperArg.items[i])
              THEN LET kept == S_colon \o TargetOf(helperArg.items[i])
                   IN /\ Len(helperOut.v.items[i]) >= Len(kept)
                      /\ Suffix(helperOut.v.items[i], Len(kept)) = kept
              ELSE helperOut.v.items[i] = helperArg.items[i]

C29_Witness ==
    /\ ResolvedCall
    /\ helperWith = [workingDir |-> S_work, home |-> S_home_u]
    /\ helperArg.items = <<S_tilde_cache, S_up>>
    /\ helperOut.v.items = <<S_tilde_cache, <<"/","u","p",":","/","u","p",":","r","o">>>>

(* C30: a key given more than once *)

\* the items of the list that give the key
ItemsWithKey(name) ==
    {i \in 1..Len(helperArg.items) : KeyOf(helperArg.items[i].s, helperSep) = name}

LastItemWithKey(name) ==
    CHOOSE i \in ItemsWithKey(name) : \A j \in ItemsWithKey(name) : j <= i

\* C30: for a list of strings, loadMappingOrList has every key once, with the value of the
\* last item of the list that gives the key, and so no more entries than the list has items.
C30_LastItemWins ==
    (helperFn = "loadMappingOrList" /\ helperOut # None /\ ListOfStrings(helperArg)) =>
        /\ helperOut.t = "ok"
        /\ \A name \in DOMAIN helperOut.v.m :
              /\ ItemsWithKey(name) # {}
              /\ helperOut.v.m[name] = ValueOf(helperArg.items[LastItemWithKey(name)].s, helperSep)
        /\ \A i \in 1..Len(helperArg.items) :
              KeyOf(helperArg.items[i].s, helperSep) \in DOMAIN helperOut.v.m
        /\ Cardinality(DOMAIN helperOut.v.m) <= Len(helperArg.items)
        /\ helperArg.items = <<VStr(S_FOO_eq_1), VStr(S_FOO_eq_2)>> /\ helperSep = <<"=">>
              => helperOut.v.m = (S_FOO :> <<"2">>)

C30_Witness ==
    /\ helperFn = "loadMappingOrList"
    /\ helperArg = VList(<<VStr(S_FOO_eq_1), VStr(S_FOO_eq_2)>>)
    /\ helperSep = <<"=">>
    /\ helperOut = Ok(GoMap(S_FOO :> <<"2">>))

====
